---- MODULE Spec2Model ----
(***************************************************************************)
(* A model of schema_rag.service.SchemaRagService: construction            *)
(* (_load_index), query expansion (_expand_query_synonyms), the scoring    *)
(* helpers and retrieve_grounding.                                         *)
(*                                                                         *)
(* Strings are tuples of one-character strings, so that lower(), split(),  *)
(* join() and the substring test "a in b" are computed, not assumed.       *)
(* Scores are exact rationals held as integers in units of 1/60: 0.5 is    *)
(* 30, 1.5 is 90, 0.3 is 18, 0.4 is 24, and 1/(1+d) is exact for the       *)
(* distances the model draws (distances are held in halves).               *)
(***************************************************************************)
EXTENDS Integers, Sequences, FiniteSets, TLC

VARIABLES
    deps,       \* are faiss and sentence_transformers importable
    files,      \* which of the three artifacts exist under index_path
    synFile,    \* the state of schema_synonyms.json beside the module
    onDisk,     \* [first, ndocs, ntotal]: what docs.jsonl and faiss.index hold
    svc,        \* the SchemaRagService object (or that there is none)
    effects,    \* the external calls the last operation made, in order
    outcome,    \* what the last operation returned or raised
    fnIn,       \* arguments of the helper under test (helper specifications)
    fnOut       \* what the helper returned

vars == <<deps, files, synFile, onDisk, svc, effects, outcome, fnIn, fnOut>>

(***************************************************************************)
(* Bounds of the model.                                                    *)
(***************************************************************************)
MaxQLen == 4        \* longest enumerated question, in characters
MaxSeed == 5        \* hash seeds 0..MaxSeed order the set() of merged synonyms

(***************************************************************************)
(* Characters and strings.                                                 *)
(***************************************************************************)
UpperChars == <<"A","B","C","D","E","F","G","H","I","J","K","L","M",
                "N","O","P","Q","R","S","T","U","V","W","X","Y","Z">>
LowerChars == <<"a","b","c","d","e","f","g","h","i","j","k","l","m",
                "n","o","p","q","r","s","t","u","v","w","x","y","z">>
DigitChars == {"0","1","2","3","4","5","6","7","8","9"}
SpaceChars == {" ", "\t", "\n"}

Range(s) == {s[i] : i \in DOMAIN s}

LowerSet == Range(LowerChars)
UpperSet == Range(UpperChars)

\* the lower-case letter of each upper-case letter
LowerMap == [c \in UpperSet |-> LowerChars[CHOOSE i \in DOMAIN UpperChars : UpperChars[i] = c]]

IsLowerChar(c) == c \in LowerSet
IsSpace(c) == c \in SpaceChars

\* str.lower() on one character
LowerChar(c) == IF c \in UpperSet THEN LowerMap[c] ELSE c

\* str.lower()
Lower(s) == [i \in DOMAIN s |-> LowerChar(s[i])]

\* needle in hay (Python's substring test; the empty string is in every string)
Contains(hay, needle) ==
    \E i \in 1..(Len(hay) - Len(needle) + 1) :
        SubSeq(hay, i, i + Len(needle) - 1) = needle

\* str.split(): the maximal runs of non-whitespace characters
RECURSIVE SplitFrom(_, _, _, _)
SplitFrom(s, i, cur, acc) ==
    IF i > Len(s)
    THEN IF cur = <<>> THEN acc ELSE Append(acc, cur)
    ELSE IF IsSpace(s[i])
         THEN SplitFrom(s, i + 1, <<>>, IF cur = <<>> THEN acc ELSE Append(acc, cur))
         ELSE SplitFrom(s, i + 1, Append(cur, s[i]), acc)

Split(s) == SplitFrom(s, 1, <<>>, <<>>)

\* " ".join(words)
RECURSIVE Join(_)
Join(words) ==
    IF words = <<>> THEN <<>>
    ELSE IF Len(words) = 1 THEN words[1]
    ELSE words[1] \o <<" ">> \o Join(Tail(words))

\* all strings over alphabet cs of length at most n
RECURSIVE StringsUpTo(_, _)
StringsUpTo(cs, n) ==
    IF n = 0 THEN {<<>>}
    ELSE LET shorter == StringsUpTo(cs, n - 1)
         IN shorter \cup {Append(s, c) : s \in shorter, c \in cs}

(***************************************************************************)
(* schema_synonyms.json.  synFile.kind is "absent" (exists() is false),    *)
(* "unreadable" (open raises), "unparsable" (json.load raises),            *)
(* "nonobject" (valid JSON whose top level is not an object) or "object".  *)
(* An object is the sequence of its entries [key, val] in file order.  A   *)
(* value is a list of items, a string or a number; an item is a string, a  *)
(* number or a nested list.                                                *)
(***************************************************************************)
StrItem(s) == [t |-> "str", s |-> s]
NumItem == [t |-> "num", s |-> <<"5">>]
ListItem == [t |-> "list", s |-> <<>>]

ListVal(items) == [t |-> "list", s |-> <<>>, items |-> items]
StrVal(s) == [t |-> "str", s |-> s, items |-> <<>>]
NumVal == [t |-> "num", s |-> <<>>, items |-> <<>>]

Entry(key, val) == [key |-> key, val |-> val]

NoFile(kind) == [kind |-> kind, entries |-> <<>>]
ObjectFile(entries) == [kind |-> "object", entries |-> entries]

\* what a call returned or raised
Returned(text) == [kind |-> "return", text |-> text, exc |-> "none"]
Raised(exc) == [kind |-> "raise", text |-> <<>>, exc |-> exc]

\* "for value in values": a list yields its items, a string its characters
IterValues(val) ==
    IF val.t = "list" THEN val.items
    ELSE [i \in DOMAIN val.s |-> StrItem(<<val.s[i]>>)]

\* dictionaries are association lists in insertion order
HasKey(tbl, k) == \E i \in DOMAIN tbl : tbl[i].key = k
IndexOf(tbl, k) == CHOOSE i \in DOMAIN tbl : tbl[i].key = k
Lookup(tbl, k) == tbl[IndexOf(tbl, k)].val

\* the elements of a list in first-occurrence order, each once
RECURSIVE Dedup(_)
Dedup(s) ==
    IF s = <<>> THEN <<>>
    ELSE LET front == Dedup(SubSeq(s, 1, Len(s) - 1))
             last == s[Len(s)]
         IN IF last \in Range(front) THEN front ELSE Append(front, last)

\* the n-th permutation of s (factorial number system)
RECURSIVE NthPerm(_, _)
NthPerm(s, n) ==
    IF Len(s) <= 1 THEN s
    ELSE LET i == (n % Len(s)) + 1
             rest == SubSeq(s, 1, i - 1) \o SubSeq(s, i + 1, Len(s))
         IN <<s[i]>> \o NthPerm(rest, n \div Len(s))

\* list(set(items)): each element once, in an order fixed by the hash seed
SetOrder(items, seed) == NthPerm(Dedup(items), seed)

\* lines 113-118: the reverse map value -> [keys]
RECURSIVE ReverseStep(_, _, _, _)
ReverseStep(entries, e, j, rev) ==
    IF e > Len(entries) THEN [exc |-> "none", tbl |-> rev]
    ELSE IF entries[e].val.t = "num" THEN [exc |-> "TypeError", tbl |-> rev]
    ELSE LET vs == IterValues(entries[e].val)
         IN IF j > Len(vs) THEN ReverseStep(entries, e + 1, 1, rev)
            ELSE IF vs[j].t = "list" THEN [exc |-> "TypeError", tbl |-> rev]
            ELSE LET rev1 == IF HasKey(rev, vs[j]) THEN rev
                             ELSE Append(rev, Entry(vs[j], ListVal(<<>>)))
                     i == IndexOf(rev1, vs[j])
                     rev2 == [rev1 EXCEPT ![i].val =
                                 ListVal(Append(@.items, StrItem(entries[e].key)))]
                 IN ReverseStep(entries, e, j + 1, rev2)

\* lines 121-126 with "synonyms[key] + values" for line 126: the merged
\* list keeps its repeats
RECURSIVE MergeKeepingRepeats(_, _, _, _)
MergeKeepingRepeats(syn, rev, r, seed) ==
    IF r > Len(rev) THEN [exc |-> "none", tbl |-> syn]
    ELSE IF ~HasKey(syn, rev[r].key)
         THEN MergeKeepingRepeats(Append(syn, rev[r]), rev, r + 1, seed)
         ELSE LET i == IndexOf(syn, rev[r].key)
              IN IF syn[i].val.t # "list" THEN [exc |-> "TypeError", tbl |-> syn]
                 ELSE MergeKeepingRepeats(
                        [syn EXCEPT ![i].val = ListVal(@.items \o rev[r].val.items)],
                        rev, r + 1, seed)

\* lines 121-126: merge the reverse map into the synonyms
RECURSIVE MergeStep(_, _, _, _)
MergeStep(syn, rev, r, seed) ==
    IF r > Len(rev) THEN [exc |-> "none", tbl |-> syn]
    ELSE IF ~HasKey(syn, rev[r].key)
         THEN MergeStep(Append(syn, rev[r]), rev, r + 1, seed)
         ELSE LET i == IndexOf(syn, rev[r].key)
              IN IF syn[i].val.t # "list" THEN [exc |-> "TypeError", tbl |-> syn]
                 ELSE MergeStep(
                        [syn EXCEPT ![i].val =
                            ListVal(SetOrder(@.items \o rev[r].val.items, seed))],
                        rev, r + 1, seed)

\* lines 112-126: the bidirectional table, or the exception building it raises
BuildSynonyms(file, seed) ==
    IF file.kind # "object" THEN [exc |-> "AttributeError", tbl |-> <<>>]
    ELSE LET rev == ReverseStep(file.entries, 1, 1, <<>>)
             syn == [i \in DOMAIN file.entries |->
                        Entry(StrItem(file.entries[i].key), file.entries[i].val)]
         IN IF rev.exc # "none" THEN rev ELSE MergeStep(syn, rev.tbl, 1, seed)

\* lines 139-141: the phrase lengths tried at position i that are keys
PhraseAt(words, i, n) == StrItem(Join(SubSeq(words, i, i + n - 1)))

PhraseLens(words, i, syn) ==
    {n \in 2..4 : n <= Len(words) - i + 1 /\ HasKey(syn, PhraseAt(words, i, n))}

\* line 139: range(2, ...) is ascending and the loop breaks at the first hit
FirstPhraseLen(lens) == CHOOSE n \in lens : \A m \in lens : n <= m

\* lines 133-157: the scan; i is the 1-based cursor
RECURSIVE Scan(_, _, _, _)
Scan(words, i, expanded, syn) ==
    IF i > Len(words) THEN expanded
    ELSE LET lens == PhraseLens(words, i, syn)
             word == StrItem(words[i])
         IN IF lens # {}
            THEN LET n == FirstPhraseLen(lens)
                 IN Scan(words, i + n,
                         Append(expanded, word)
                             \o IterValues(Lookup(syn, PhraseAt(words, i, n))),
                         syn)
            ELSE Scan(words, i + 1,
                      Append(expanded, word)
                          \o (IF HasKey(syn, word)
                              THEN IterValues(Lookup(syn, word)) ELSE <<>>),
                      syn)

\* line 159: " ".join raises TypeError on an item that is not a string
JoinItems(items) ==
    IF \E k \in DOMAIN items : items[k].t # "str" THEN Raised("TypeError")
    ELSE Returned(Join([k \in DOMAIN items |-> items[k].s]))

\* _expand_query_synonyms without the question.lower() of line 128
ExpandCaseSensitive(question, file, seed) ==
    IF file.kind \in {"absent", "unreadable", "unparsable"} THEN Returned(question)
    ELSE LET built == BuildSynonyms(file, seed)
         IN IF built.exc # "none" THEN Raised(built.exc)
            ELSE JoinItems(Scan(Split(question), 1, <<>>, built.tbl))

\* _expand_query_synonyms
ExpandQuerySynonyms(question, file, seed) ==
    IF file.kind = "absent" THEN Returned(question)
    ELSE IF file.kind \in {"unreadable", "unparsable"} THEN Returned(question)
    ELSE LET built == BuildSynonyms(file, seed)
         IN IF built.exc # "none" THEN Raised(built.exc)
            ELSE JoinItems(Scan(Split(Lower(question)), 1, <<>>, built.tbl))

(***************************************************************************)
(* Inputs of the helper specifications.                                    *)
(***************************************************************************)
QChars == {"a", "b", "A", " "}

Questions == StringsUpTo(QChars, MaxQLen)

Seeds == 0..MaxSeed

SynFiles ==
    { NoFile("absent"), NoFile("unreadable"), NoFile("unparsable"),
      NoFile("nonobject"),
      \* {"a": ["b"]}
      ObjectFile(<<Entry(<<"a">>, ListVal(<<StrItem(<<"b">>)>>))>>),
      \* {"a b": ["c"]}
      ObjectFile(<<Entry(<<"a", " ", "b">>, ListVal(<<StrItem(<<"c">>)>>))>>),
      \* {"c": ["d"]}
      ObjectFile(<<Entry(<<"c">>, ListVal(<<StrItem(<<"d">>)>>))>>),
      \* {"a": ["b"], "b": ["a", "c"]}
      ObjectFile(<<Entry(<<"a">>, ListVal(<<StrItem(<<"b">>)>>)),
                   Entry(<<"b">>, ListVal(<<StrItem(<<"a">>), StrItem(<<"c">>)>>))>>),
      \* {"a": 5}
      ObjectFile(<<Entry(<<"a">>, NumVal)>>),
      \* {"a": ["b", 5]}
      ObjectFile(<<Entry(<<"a">>, ListVal(<<StrItem(<<"b">>), NumItem>>))>>),
      \* {"c": [["d"]]}
      ObjectFile(<<Entry(<<"c">>, ListVal(<<ListItem>>))>>),
      \* {"a": "bc"}
      ObjectFile(<<Entry(<<"a">>, StrVal(<<"b", "c">>))>>),
      \* {"a": ["b", "b"]}
      ObjectFile(<<Entry(<<"a">>, ListVal(<<StrItem(<<"b">>), StrItem(<<"b">>)>>))>>) }

NotCalled == [kind |-> "none", text |-> <<>>, exc |-> "none"]

(***************************************************************************)
(* The service is not part of the helper specifications: its variables     *)
(* rest at these values there.                                             *)
(***************************************************************************)
NoService == [constructed |-> FALSE]

\* no call of the service is waiting to be looked at
Idle == [kind |-> "none"]

ServiceAtRest ==
    /\ deps = FALSE
    /\ files = {}
    /\ synFile = NoFile("absent")
    /\ onDisk = [first |-> 0, ndocs |-> 0, ntotal |-> 0]
    /\ svc = NoService
    /\ effects = <<>>
    /\ outcome = Idle

serviceVars == <<deps, files, synFile, onDisk, svc, effects, outcome>>

(***************************************************************************)
(* SpecExpand: _expand_query_synonyms applied to a question and a file.    *)
(***************************************************************************)
InitExpand ==
    /\ ServiceAtRest
    /\ fnIn \in [question : Questions, file : SynFiles]
    /\ fnOut = NotCalled

Expand ==
    /\ fnOut = NotCalled
    /\ \E seed \in Seeds :
           fnOut' = ExpandQuerySynonyms(fnIn.question, fnIn.file, seed)
    /\ UNCHANGED <<fnIn, serviceVars>>

NextExpand == Expand

SpecExpand == InitExpand /\ [][NextExpand]_vars

(***************************************************************************)
(* Documents.  A document is a record with id, doc_type, text and          *)
(* metadata; metadata holds only the keys the document has, and a key may  *)
(* hold None.  text, model, column and table are character strings; ids,   *)
(* join hints, semantics notes and source files are opaque.                *)
(***************************************************************************)
None == <<"<None>">>

\* dict.get(k, default)
Get(d, k, default) == IF k \in DOMAIN d THEN d[k] ELSE default

\* None in an opaque field
NoneAtom == "<None>"

\* the truth value of a character string or None
Truthy(x) == x # None /\ x # <<>>

\* the truth value of an opaque string or None
TruthyAtom(x) == x # NoneAtom /\ x # ""

\* (x or "")
OrEmpty(x) == IF Truthy(x) THEN x ELSE <<>>

\* scores in units of 1/60: Pts(1) is 0.5
Pts(halves) == halves * 30
Tenths(n) == n * 6

Abs(x) == IF x < 0 THEN -x ELSE x

\* 1.0 / (1.0 + distance), with the distance in halves
VectorScore(d2) == (2 * Pts(2)) \div (2 + d2)

\* _extract_keywords: the maximal runs of [a-z] of the lowered text (after
\* lower() the branch [A-Z][a-z]* matches nothing); list(set(...)) is a set
IsRunStart(s, i) == IsLowerChar(s[i]) /\ (i = 1 \/ ~IsLowerChar(s[i - 1]))

RunEnd(s, i) ==
    CHOOSE j \in i..Len(s) :
        /\ \A k \in i..j : IsLowerChar(s[k])
        /\ (j = Len(s) \/ ~IsLowerChar(s[j + 1]))

ExtractKeywords(text) ==
    LET s == Lower(text)
    IN {SubSeq(s, i, RunEnd(s, i)) : i \in {k \in DOMAIN s : IsRunStart(s, k)}}

StatusKeywords ==
    {<<"r", "u", "n", "n", "i", "n", "g">>, <<"c", "o", "m", "p", "l", "e", "t", "e", "d">>, <<"a", "c", "t", "i", "v", "e">>, <<"i", "n", "a", "c", "t", "i", "v", "e">>, <<"s", "t", "a", "t", "u", "s">>, <<"s", "t", "a", "t", "e">>,
     <<"f", "i", "n", "i", "s", "h", "e", "d">>, <<"d", "o", "n", "e">>}

StatusValues ==
    {<<"r", "u", "n", "n", "i", "n", "g">>, <<"c", "o", "m", "p", "l", "e", "t", "e", "d">>, <<"a", "c", "t", "i", "v", "e">>, <<"i", "n", "a", "c", "t", "i", "v", "e">>, <<"f", "i", "n", "i", "s", "h", "e", "d">>, <<"d", "o", "n", "e">>}

\* the number of keywords for which hit holds
Count(kws, hit(_)) == Cardinality({kw \in kws : hit(kw)})

\* _lexical_boost with the column tested for containing "status" where
\* line 187 tests it for being "status"
LexicalBoostContaining(doc, query_keywords) ==
    LET md == Get(doc, "metadata", <<>>)
        doc_keywords == Get(md, "keywords", <<>>)
        col_name == Get(md, "column", <<>>)
        model_name == Get(md, "model", <<>>)
        table_name == Get(md, "table", <<>>)
        doc_text == Lower(Get(doc, "text", <<>>))
        has_status_keyword == query_keywords \cap StatusKeywords # {}
        InDocKeywords(kw) == kw \in Range(doc_keywords)
        IsStatusValue(kw) == kw \in StatusValues
        InColumn(kw) == Truthy(col_name) /\ Contains(Lower(col_name), kw)
        InModel(kw) == Truthy(model_name) /\ Contains(Lower(model_name), kw)
        InTable(kw) == Truthy(table_name) /\ Contains(Lower(table_name), kw)
        InText(kw) == Contains(doc_text, kw)
    IN  Pts(4) * Count(query_keywords, InDocKeywords)
      + (IF has_status_keyword /\ Truthy(col_name) /\ Contains(Lower(col_name), <<"s", "t", "a", "t", "u", "s">>)
         THEN Pts(8) + Pts(4) * Count(query_keywords, IsStatusValue)
         ELSE 0)
      + Pts(6) * Count(query_keywords, InColumn)
      + Pts(4) * Count(query_keywords, InModel)
      + Pts(3) * Count(query_keywords, InTable)
      + Pts(1) * Count(query_keywords, InText)

\* _lexical_boost
LexicalBoost(doc, query_keywords) ==
    LET md == Get(doc, "metadata", <<>>)
        doc_keywords == Get(md, "keywords", <<>>)
        col_name == Get(md, "column", <<>>)
        model_name == Get(md, "model", <<>>)
        table_name == Get(md, "table", <<>>)
        doc_text == Lower(Get(doc, "text", <<>>))
        has_status_keyword == query_keywords \cap StatusKeywords # {}
        InDocKeywords(kw) == kw \in Range(doc_keywords)
        IsStatusValue(kw) == kw \in StatusValues
        InColumn(kw) == Truthy(col_name) /\ Contains(Lower(col_name), kw)
        InModel(kw) == Truthy(model_name) /\ Contains(Lower(model_name), kw)
        InTable(kw) == Truthy(table_name) /\ Contains(Lower(table_name), kw)
        InText(kw) == Contains(doc_text, kw)
    IN  Pts(4) * Count(query_keywords, InDocKeywords)
      + (IF has_status_keyword /\ Truthy(col_name) /\ Lower(col_name) = <<"s", "t", "a", "t", "u", "s">>
         THEN Pts(8) + Pts(4) * Count(query_keywords, IsStatusValue)
         ELSE 0)
      + Pts(6) * Count(query_keywords, InColumn)
      + Pts(4) * Count(query_keywords, InModel)
      + Pts(3) * Count(query_keywords, InTable)
      + Pts(1) * Count(query_keywords, InText)

\* _exact_match_boost asking for one keyword inside both names, where
\* lines 218-219 let the model and the column match different keywords
ExactMatchSameKeyword(doc, query_keywords) ==
    LET metadata == Get(doc, "metadata", <<>>)
        col_name == Lower(OrEmpty(Get(metadata, "column", None)))
        model_name == Lower(OrEmpty(Get(metadata, "model", None)))
    IN IF \E kw \in query_keywords :
              Contains(model_name, kw) /\ Contains(col_name, kw)
       THEN Pts(12) ELSE 0

\* _exact_match_boost with "or" where the code has "and"
ExactMatchEither(doc, query_keywords) ==
    LET metadata == Get(doc, "metadata", <<>>)
        col_name == Lower(OrEmpty(Get(metadata, "column", None)))
        model_name == Lower(OrEmpty(Get(metadata, "model", None)))
    IN IF \/ \E kw \in query_keywords : Contains(model_name, kw)
          \/ \E kw \in query_keywords : Contains(col_name, kw)
       THEN Pts(12) ELSE 0

\* _exact_match_boost
ExactMatchBoost(doc, query_keywords) ==
    LET metadata == Get(doc, "metadata", <<>>)
        col_name == Lower(OrEmpty(Get(metadata, "column", None)))
        model_name == Lower(OrEmpty(Get(metadata, "model", None)))
        model_match == \E kw \in query_keywords : Contains(model_name, kw)
        col_match == \E kw \in query_keywords : Contains(col_name, kw)
    IN IF model_match /\ col_match THEN Pts(12) ELSE 0

\* any(term in question_lower for term in terms)
AnyTermIn(text, terms) == \E term \in terms : Contains(text, term)

\* _recipe_pattern_boost if every pattern family were tried whatever the
\* recipe_type: the bonuses stack
RecipeBoostStacking(doc, question, entities) ==
    IF Get(doc, "doc_type", NoneAtom) # "query_recipe" THEN 0
    ELSE LET metadata == Get(doc, "metadata", <<>>)
             question_lower == Lower(question)
         IN  (IF Get(metadata, "source", NoneAtom) = "curated" THEN Pts(8) ELSE 0)
           + (IF AnyTermIn(question_lower, {<<"c", "o", "u", "n", "t">>, <<"t", "o", "t", "a", "l">>})
              THEN Pts(4) ELSE 0)
           + (IF AnyTermIn(question_lower, {<<"s", "t", "a", "t", "u", "s">>, <<"s", "t", "a", "t", "e">>})
              THEN Pts(4) ELSE 0)

\* _recipe_pattern_boost
RecipePatternBoost(doc, question, entities) ==
    IF Get(doc, "doc_type", NoneAtom) # "query_recipe" THEN 0
    ELSE LET metadata == Get(doc, "metadata", <<>>)
             question_lower == Lower(question)
             recipe_type == Get(metadata, "recipe_type", "")
         IN  (IF Get(metadata, "source", NoneAtom) = "curated" THEN Pts(8) ELSE 0)
           + (IF /\ recipe_type = "aggregation"
                 /\ AnyTermIn(question_lower,
                        {<<"h", "o", "w", " ", "m", "a", "n", "y">>, <<"c", "o", "u", "n", "t">>, <<"t", "o", "t", "a", "l">>, <<"s", "u", "m">>, <<"a", "v", "e", "r", "a", "g", "e">>, <<"a", "v", "g">>})
              THEN Pts(4) ELSE 0)
           + (IF /\ recipe_type = "temporal"
                 /\ \/ Get(entities, "has_date", FALSE)
                    \/ AnyTermIn(question_lower,
                           {<<"r", "e", "c", "e", "n", "t">>, <<"l", "a", "s", "t">>, <<"c", "r", "e", "a", "t", "e", "d">>, <<"u", "p", "d", "a", "t", "e", "d">>, <<"y", "e", "a", "r">>})
              THEN Pts(4) ELSE 0)
           + (IF /\ recipe_type = "status"
                 /\ AnyTermIn(question_lower,
                        {<<"r", "u", "n", "n", "i", "n", "g">>, <<"c", "o", "m", "p", "l", "e", "t", "e", "d">>, <<"a", "c", "t", "i", "v", "e">>, <<"s", "t", "a", "t", "u", "s">>, <<"s", "t", "a", "t", "e">>})
              THEN Pts(4) ELSE 0)
           + (IF /\ recipe_type = "relationship"
                 /\ AnyTermIn(question_lower,
                        {<<"r", "e", "l", "a", "t", "e", "d">>, <<"l", "i", "n", "k", "e", "d">>, <<"f", "o", "r">>, <<"a", "s", "s", "o", "c", "i", "a", "t", "e", "d">>, <<"c", "o", "n", "n", "e", "c", "t", "i", "o", "n">>})
              THEN Pts(4) ELSE 0)

DomainKeywords ==
    { {<<"p", "r", "o", "g", "r", "a", "m">>, <<"p", "r", "o", "g", "r", "a", "m", "s">>}, {<<"s", "i", "m", "u", "l", "a", "t", "i", "o", "n">>, <<"s", "i", "m", "u", "l", "a", "t", "i", "o", "n", "s">>},
      {<<"e", "x", "p", "e", "r", "i", "m", "e", "n", "t">>, <<"e", "x", "p", "e", "r", "i", "m", "e", "n", "t", "s">>}, {<<"r", "e", "s", "e", "a", "r", "c", "h">>} }

\* _penalize_incorrect_matches with 0.3 at line 298 as at line 282: one
\* threshold for both penalties
PenalizeSingleThreshold(doc, query_keywords, vector_score) ==
    LET metadata == Get(doc, "metadata", <<>>)
        model_name == Lower(OrEmpty(Get(metadata, "model", None)))
        col_name == Lower(OrEmpty(Get(metadata, "column", None)))
        table_name == Lower(OrEmpty(Get(metadata, "table", None)))
        doc_text == Lower(Get(doc, "text", <<>>))
        has_model_match == \E kw \in query_keywords : Contains(model_name, kw)
        has_col_match == \E kw \in query_keywords : Contains(col_name, kw)
        has_table_match == \E kw \in query_keywords : Contains(table_name, kw)
        has_text_match == \E kw \in query_keywords : Contains(doc_text, kw)
        Mismatch(keywords) ==
            /\ keywords \cap query_keywords # {}
            /\ ~\E kw \in keywords : Contains(model_name, kw) \/ Contains(table_name, kw)
            /\ vector_score < Tenths(3)
    IN  (IF /\ ~(has_model_match \/ has_col_match \/ has_table_match \/ has_text_match)
            /\ vector_score < Tenths(3)
         THEN -Pts(6) ELSE 0)
      - Pts(4) * Cardinality({keywords \in DomainKeywords : Mismatch(keywords)})

\* _penalize_incorrect_matches: zero or negative
PenalizeIncorrectMatches(doc, query_keywords, vector_score) ==
    LET metadata == Get(doc, "metadata", <<>>)
        model_name == Lower(OrEmpty(Get(metadata, "model", None)))
        col_name == Lower(OrEmpty(Get(metadata, "column", None)))
        table_name == Lower(OrEmpty(Get(metadata, "table", None)))
        doc_text == Lower(Get(doc, "text", <<>>))
        has_model_match == \E kw \in query_keywords : Contains(model_name, kw)
        has_col_match == \E kw \in query_keywords : Contains(col_name, kw)
        has_table_match == \E kw \in query_keywords : Contains(table_name, kw)
        has_text_match == \E kw \in query_keywords : Contains(doc_text, kw)
        Mismatch(keywords) ==
            /\ keywords \cap query_keywords # {}
            /\ ~\E kw \in keywords : Contains(model_name, kw) \/ Contains(table_name, kw)
            /\ vector_score < Tenths(4)
    IN  (IF /\ ~(has_model_match \/ has_col_match \/ has_table_match \/ has_text_match)
            /\ vector_score < Tenths(3)
         THEN -Pts(6) ELSE 0)
      - Pts(4) * Cardinality({keywords \in DomainKeywords : Mismatch(keywords)})

(***************************************************************************)
(* Regular-expression matching, as re.search does it: the leftmost start,  *)
(* and at that start the first match in backtracking order (a greedy       *)
(* quantifier longest first, a lazy one shortest first).                   *)
(***************************************************************************)
IsDigit(c) == c \in DigitChars

\* [a-z\s]
IsNameChar(c) == IsLowerChar(c) \/ IsSpace(c)

\* the literal lit stands at position i of s
MatchAt(s, i, lit) ==
    /\ i >= 1
    /\ i + Len(lit) - 1 <= Len(s)
    /\ SubSeq(s, i, i + Len(lit) - 1) = lit

\* how many whitespace characters stand at position a and after
SpaceRun(s, a) ==
    IF a > Len(s) \/ a < 1 THEN 0
    ELSE Cardinality({w \in 1..(Len(s) - a + 1) : \A k \in a..(a + w - 1) : IsSpace(s[k])})

\* how many digits stand at position a and after
DigitRun(s, a) ==
    IF a > Len(s) \/ a < 1 THEN 0
    ELSE Cardinality({w \in 1..(Len(s) - a + 1) : \A k \in a..(a + w - 1) : IsDigit(s[k])})

\* re.search(lit, s) for a set of alternative literals
AnyLit(s, alts) == \E lit \in alts : Contains(s, lit)

\* (?:a1|a2)\s+(?:b1|b2)
LitSpaceLit(s, alts1, alts2) ==
    \E i \in DOMAIN s, a \in alts1 :
        /\ MatchAt(s, i, a)
        /\ \E m \in 1..SpaceRun(s, i + Len(a)), b \in alts2 :
               MatchAt(s, i + Len(a) + m, b)

\* \d{4}
HasYear(s) == \E i \in DOMAIN s : DigitRun(s, i) >= 4

\* (?:in|during)\s+\d{4}
LitSpaceYear(s, alts) ==
    \E i \in DOMAIN s, a \in alts :
        /\ MatchAt(s, i, a)
        /\ \E m \in 1..SpaceRun(s, i + Len(a)) : DigitRun(s, i + Len(a) + m) >= 4

\* str.strip()
RECURSIVE Strip(_)
Strip(s) ==
    IF s = <<>> THEN s
    ELSE IF IsSpace(s[1]) THEN Strip(Tail(s))
    ELSE IF IsSpace(s[Len(s)]) THEN Strip(SubSeq(s, 1, Len(s) - 1))
    ELSE s

NoMatch == [found |-> FALSE, group |-> <<>>]
Match(group) == [found |-> TRUE, group |-> group]

Min(S) == CHOOSE x \in S : \A y \in S : x <= y
Max(S) == CHOOSE x \in S : \A y \in S : x >= y

\* (?:\s+program|\s|$) at position t
TermProgramSpaceEnd(s, t) ==
    \/ \E m \in 1..SpaceRun(s, t) : MatchAt(s, t + m, <<"p", "r", "o", "g", "r", "a", "m">>)
    \/ (t <= Len(s) /\ IsSpace(s[t]))
    \/ t = Len(s) + 1
    \/ (t = Len(s) /\ s[t] = "\n")

\* (?:\s|$) at position t
TermSpaceEnd(s, t) ==
    \/ (t <= Len(s) /\ IsSpace(s[t]))
    \/ t = Len(s) + 1
    \/ (t = Len(s) /\ s[t] = "\n")

\* (?:p1|p2)\s+([a-z\s]+?)TERM: the group of re.search's match.  A match is
\* <<i, w, n>>: the prefix at i, w whitespace characters, a group of n
\* characters.  \s+ is greedy (largest w first), the group lazy (least n).
PrefixedName(s, prefixes, Term(_, _)) ==
    LET GroupAt(i, k, w) == i + k + w
        Ok(i, k, w, n) ==
            /\ GroupAt(i, k, w) + n - 1 <= Len(s)
            /\ \A j \in GroupAt(i, k, w)..(GroupAt(i, k, w) + n - 1) : IsNameChar(s[j])
            /\ Term(s, GroupAt(i, k, w) + n)
        Lens(i, k, w) == {n \in 1..Len(s) : Ok(i, k, w, n)}
        Widths(i, k) == {w \in 1..SpaceRun(s, i + k) : Lens(i, k, w) # {}}
        PrefixLen(i) ==
            {Len(p) : p \in {q \in prefixes : MatchAt(s, i, q) /\ Widths(i, Len(q)) # {}}}
        Starts == {i \in DOMAIN s : PrefixLen(i) # {}}
    IN IF Starts = {} THEN NoMatch
       ELSE LET i == Min(Starts)
                k == Min(PrefixLen(i))
                w == Max(Widths(i, k))
                n == Min(Lens(i, k, w))
            IN Match(SubSeq(s, GroupAt(i, k, w), GroupAt(i, k, w) + n - 1))

\* ([a-z\s]+?)\s+program
NameBeforeProgram(s) ==
    LET Ok(i, n) ==
            /\ i + n - 1 <= Len(s)
            /\ \A j \in i..(i + n - 1) : IsNameChar(s[j])
            /\ \E m \in 1..SpaceRun(s, i + n) : MatchAt(s, i + n + m, <<"p", "r", "o", "g", "r", "a", "m">>)
        Lens(i) == {n \in 1..Len(s) : Ok(i, n)}
        Starts == {i \in DOMAIN s : Lens(i) # {}}
    IN IF Starts = {} THEN NoMatch
       ELSE LET i == Min(Starts)
            IN Match(SubSeq(s, i, i + Min(Lens(i)) - 1))

StopWords == {<<"t", "h", "e">>, <<"a">>, <<"a", "n">>, <<"f", "o", "r">>, <<"w", "i", "t", "h">>}

\* lines 310-314: the three program-name patterns, in order
ProgramPatterns(s) ==
    << PrefixedName(s, {<<"f", "o", "r">>, <<"p", "r", "o", "g", "r", "a", "m">>, <<"n", "a", "m", "e", "d">>}, TermProgramSpaceEnd),
       PrefixedName(s, {<<"p", "r", "o", "g", "r", "a", "m">>}, TermSpaceEnd),
       NameBeforeProgram(s) >>

\* line 320
AcceptableName(m) ==
    m.found /\ Len(Strip(m.group)) > 2 /\ Strip(m.group) \notin StopWords

\* lines 315-322
ProgramNamePart(s) ==
    LET ms == ProgramPatterns(s)
        ok == {p \in DOMAIN ms : AcceptableName(ms[p])}
    IN IF ok = {} THEN <<>> ELSE "program_name" :> Strip(ms[Min(ok)].group)

\* lines 325-336
HasDatePart(s) ==
    IF \/ HasYear(s)
       \/ AnyLit(s, {<<"l", "a", "s", "t">>, <<"p", "a", "s", "t">>, <<"r", "e", "c", "e", "n", "t">>, <<"s", "i", "n", "c", "e">>, <<"b", "e", "f", "o", "r", "e">>, <<"a", "f", "t", "e", "r">>})
       \/ LitSpaceLit(s, {<<"c", "r", "e", "a", "t", "e", "d">>, <<"u", "p", "d", "a", "t", "e", "d">>, <<"m", "o", "d", "i", "f", "i", "e", "d">>},
                         {<<"i", "n">>, <<"o", "n">>, <<"a", "t">>, <<"r", "e", "c", "e", "n", "t", "l", "y">>})
       \/ LitSpaceYear(s, {<<"i", "n">>, <<"d", "u", "r", "i", "n", "g">>})
       \/ AnyLit(s, {<<"r", "e", "c", "e", "n", "t", "l", "y">>})
       \/ LitSpaceLit(s, {<<"l", "a", "s", "t">>}, {<<"u", "s", "e", "d">>, <<"c", "r", "e", "a", "t", "e", "d">>, <<"u", "p", "d", "a", "t", "e", "d">>, <<"m", "o", "d", "i", "f", "i", "e", "d">>})
    THEN "has_date" :> TRUE ELSE <<>>

\* lines 339-344
TemporalTypePart(s) ==
    IF AnyLit(s, {<<"c", "r", "e", "a", "t", "e", "d">>, <<"c", "r", "e", "a", "t", "i", "o", "n">>}) THEN "temporal_type" :> "created"
    ELSE IF \/ AnyLit(s, {<<"u", "p", "d", "a", "t", "e", "d">>, <<"m", "o", "d", "i", "f", "i", "e", "d">>})
            \/ LitSpaceLit(s, {<<"l", "a", "s", "t">>}, {<<"u", "s", "e", "d">>})
         THEN "temporal_type" :> "updated"
    ELSE IF AnyLit(s, {<<"e", "x", "e", "c", "u", "t", "e", "d">>, <<"r", "a", "n">>, <<"r", "u", "n">>}) THEN "temporal_type" :> "executed"
    ELSE <<>>

DigitValue(c) == CHOOSE v \in 0..9 : <<"0","1","2","3","4","5","6","7","8","9">>[v + 1] = c

\* int(digits)
RECURSIVE ParseInt(_)
ParseInt(ds) ==
    IF ds = <<>> THEN 0
    ELSE 10 * ParseInt(SubSeq(ds, 1, Len(ds) - 1)) + DigitValue(ds[Len(ds)])

\* (?:w1|w2)\s+than\s+(\d+): the digits of re.search's match
WordThanNumber(s, words) ==
    LET DigitsAt(i, a) ==
            {d \in DOMAIN s :
                \E m \in 1..SpaceRun(s, i + Len(a)) :
                    /\ MatchAt(s, i + Len(a) + m, <<"t", "h", "a", "n">>)
                    /\ \E n \in 1..SpaceRun(s, i + Len(a) + m + 4) :
                           /\ d = i + Len(a) + m + 4 + n
                           /\ DigitRun(s, d) >= 1}
        Starts == {i \in DOMAIN s : \E a \in words : MatchAt(s, i, a) /\ DigitsAt(i, a) # {}}
    IN IF Starts = {} THEN NoMatch
       ELSE LET i == Min(Starts)
                a == CHOOSE a \in words : MatchAt(s, i, a) /\ DigitsAt(i, a) # {}
                d == Min(DigitsAt(i, a))
            IN Match(SubSeq(s, d, d + DigitRun(s, d) - 1))

\* (\d+)\s+(?:or\s+)?word: the digits of re.search's match
NumberOrWord(s, word) ==
    LET After(i) == i + DigitRun(s, i)
        Ok(i) ==
            /\ DigitRun(s, i) >= 1
            /\ \E m \in 1..SpaceRun(s, After(i)) :
                   \/ MatchAt(s, After(i) + m, word)
                   \/ /\ MatchAt(s, After(i) + m, <<"o", "r">>)
                      /\ \E n \in 1..SpaceRun(s, After(i) + m + 2) :
                             MatchAt(s, After(i) + m + 2 + n, word)
        Starts == {i \in DOMAIN s : Ok(i)}
    IN IF Starts = {} THEN NoMatch
       ELSE LET i == Min(Starts) IN Match(SubSeq(s, i, After(i) - 1))

\* lines 347-352: the four numeric patterns, in order, with the key each sets
NumericPatterns(s) ==
    << [m |-> WordThanNumber(s, {<<"m", "o", "r", "e">>, <<"g", "r", "e", "a", "t", "e", "r">>, <<"o", "v", "e", "r">>}), key |-> "min_value"],
       [m |-> NumberOrWord(s, <<"m", "o", "r", "e">>), key |-> "min_value"],
       [m |-> WordThanNumber(s, {<<"l", "e", "s", "s">>, <<"f", "e", "w", "e", "r">>, <<"u", "n", "d", "e", "r">>}), key |-> "max_value"],
       [m |-> NumberOrWord(s, <<"l", "e", "s", "s">>), key |-> "max_value"] >>

\* lines 353-361 without the break of line 361: every pattern that matches
\* sets its key
NumericPartEveryPattern(s) ==
    LET ps == NumericPatterns(s)
        Part(p) == IF ps[p].m.found THEN ps[p].key :> ParseInt(ps[p].m.group) ELSE <<>>
    IN Part(1) @@ Part(2) @@ Part(3) @@ Part(4)

\* lines 353-361
NumericPart(s) ==
    LET ps == NumericPatterns(s)
        hit == {p \in DOMAIN ps : ps[p].m.found}
    IN IF hit = {} THEN <<>>
       ELSE ps[Min(hit)].key :> ParseInt(ps[Min(hit)].m.group)

\* lines 364-369 without the \s+than of lines 364 and 366: a family word
\* anywhere decides
ComparisonPartAnyWord(s) ==
    IF AnyLit(s, {<<"g", "r", "e", "a", "t", "e", "r">>, <<"m", "o", "r", "e">>, <<"h", "i", "g", "h", "e", "r">>, <<"a", "b", "o", "v", "e">>})
    THEN "comparison" :> ">"
    ELSE IF AnyLit(s, {<<"l", "e", "s", "s">>, <<"f", "e", "w", "e", "r">>, <<"l", "o", "w", "e", "r">>, <<"b", "e", "l", "o", "w">>})
    THEN "comparison" :> "<"
    ELSE IF AnyLit(s, {<<"e", "q", "u", "a", "l">>, <<"s", "a", "m", "e">>, <<"e", "x", "a", "c", "t", "l", "y">>}) THEN "comparison" :> "="
    ELSE <<>>

\* lines 364-369
ComparisonPart(s) ==
    IF LitSpaceLit(s, {<<"g", "r", "e", "a", "t", "e", "r">>, <<"m", "o", "r", "e">>, <<"h", "i", "g", "h", "e", "r">>, <<"a", "b", "o", "v", "e">>}, {<<"t", "h", "a", "n">>})
    THEN "comparison" :> ">"
    ELSE IF LitSpaceLit(s, {<<"l", "e", "s", "s">>, <<"f", "e", "w", "e", "r">>, <<"l", "o", "w", "e", "r">>, <<"b", "e", "l", "o", "w">>}, {<<"t", "h", "a", "n">>})
    THEN "comparison" :> "<"
    ELSE IF AnyLit(s, {<<"e", "q", "u", "a", "l">>, <<"s", "a", "m", "e">>, <<"e", "x", "a", "c", "t", "l", "y">>}) THEN "comparison" :> "="
    ELSE <<>>

\* _extract_entities: a mapping holding only the keys that were detected
ExtractEntities(question) ==
    LET s == Lower(question)
    IN ProgramNamePart(s) @@ HasDatePart(s) @@ TemporalTypePart(s)
          @@ NumericPart(s) @@ ComparisonPart(s)

\* lines 380-420: the entity boost of one candidate
EntityBoost(doc, entities) ==
    LET metadata == Get(doc, "metadata", <<>>)
        text == Get(doc, "text", <<>>)
        col_name == Lower(OrEmpty(Get(metadata, "column", None)))
        temporal_type == Get(entities, "temporal_type", "")
        InCol(terms) == col_name # <<>> /\ AnyTermIn(col_name, terms)
    IN  (IF "program_name" \in DOMAIN entities
         THEN (IF Contains(Lower(text), <<"p", "r", "o", "g", "r", "a", "m">>) THEN Pts(4) ELSE 0)
            + (IF Contains(Lower(text), entities["program_name"]) THEN Pts(6) ELSE 0)
         ELSE 0)
      + (IF Get(entities, "has_date", FALSE)
         THEN (IF InCol({<<"d", "a", "t", "e">>, <<"t", "i", "m", "e">>, <<"a", "t">>, <<"c", "r", "e", "a", "t", "e", "d">>, <<"u", "p", "d", "a", "t", "e", "d">>,
                         <<"e", "x", "e", "c", "u", "t", "e", "d">>, <<"m", "o", "d", "i", "f", "i", "e", "d">>})
               THEN Pts(4) ELSE 0)
            + (IF col_name # <<>> /\
                  \/ (temporal_type = "created" /\ Contains(col_name, <<"c", "r", "e", "a", "t", "e", "d">>))
                  \/ (temporal_type = "updated" /\
                        AnyTermIn(col_name, {<<"u", "p", "d", "a", "t", "e", "d">>, <<"m", "o", "d", "i", "f", "i", "e", "d">>, <<"l", "a", "s", "t", "_", "u", "s", "e", "d">>}))
                  \/ (temporal_type = "executed" /\ Contains(col_name, <<"e", "x", "e", "c", "u", "t", "e", "d">>))
               THEN Pts(4) ELSE 0)
            + (IF HasYear(text) /\ InCol({<<"c", "r", "e", "a", "t", "e", "d">>, <<"u", "p", "d", "a", "t", "e", "d">>, <<"d", "a", "t", "e">>, <<"a", "t">>})
               THEN Pts(3) ELSE 0)
         ELSE 0)
      + (IF ("min_value" \in DOMAIN entities \/ "max_value" \in DOMAIN entities)
            /\ InCol({<<"c", "o", "u", "n", "t">>, <<"t", "o", "t", "a", "l">>, <<"s", "u", "m">>, <<"a", "v", "g">>, <<"a", "v", "e", "r", "a", "g", "e">>})
         THEN Pts(2) ELSE 0)

\* lines 422-427 without the test of line 423: every candidate is copied
\* and given an entity_boost field
BoostAlwaysRecorded(doc, entities) ==
    LET boost == EntityBoost(doc, entities)
    IN ("entity_boost" :> boost) @@ [doc EXCEPT !.score = @ + boost]

\* lines 422-427 without line 425: the boost is added and not recorded
BoostUnrecorded(doc, entities) ==
    [doc EXCEPT !.score = @ + EntityBoost(doc, entities)]

\* lines 422-427: a boosted candidate is a copy with a raised score and an
\* entity_boost field; a candidate with no boost is passed on as it is
BoostOne(doc, entities) ==
    LET boost == EntityBoost(doc, entities)
    IN IF boost > 0
       THEN ("entity_boost" :> boost) @@ [doc EXCEPT !.score = @ + boost]
       ELSE doc

\* _boost_by_entities
BoostByEntities(docs, entities) ==
    IF DOMAIN entities = {} THEN docs
    ELSE [i \in DOMAIN docs |-> BoostOne(docs[i], entities)]

\* lines 468-491 with the penalty added back where line 483 takes it off
ScoreCandidateAddingPenalty(doc, question, query_keywords, entities, distance) ==
    LET vector_score == VectorScore(distance)
        lexical_boost == LexicalBoost(doc, query_keywords)
        exact_match_boost == ExactMatchBoost(doc, query_keywords)
        recipe_boost == RecipePatternBoost(doc, question, entities)
        penalty == PenalizeIncorrectMatches(doc, query_keywords, vector_score)
    IN [score |-> vector_score + lexical_boost + exact_match_boost
                      + recipe_boost + Abs(penalty),
        vector_score |-> vector_score,
        lexical_boost |-> lexical_boost,
        exact_match_boost |-> exact_match_boost,
        recipe_boost |-> recipe_boost,
        penalty |-> penalty] @@ doc

\* lines 468-491: the scored copy of a stored document
ScoreCandidate(doc, question, query_keywords, entities, distance) ==
    LET vector_score == VectorScore(distance)
        lexical_boost == LexicalBoost(doc, query_keywords)
        exact_match_boost == ExactMatchBoost(doc, query_keywords)
        recipe_boost == RecipePatternBoost(doc, question, entities)
        penalty == PenalizeIncorrectMatches(doc, query_keywords, vector_score)
        final_score == vector_score + lexical_boost + exact_match_boost
                          + recipe_boost - Abs(penalty)
    IN [score |-> final_score,
        vector_score |-> vector_score,
        lexical_boost |-> lexical_boost,
        exact_match_boost |-> exact_match_boost,
        recipe_boost |-> recipe_boost,
        penalty |-> penalty] @@ doc

\* documents[idx] for an idx below len(documents): a negative idx counts
\* from the end of the list, and below -len(documents) it is an IndexError
InStore(documents, idx) == idx >= -Len(documents)
StoreAt(documents, idx) ==
    IF idx >= 0 THEN documents[idx + 1] ELSE documents[Len(documents) + idx + 1]

\* lines 464-466 with "idx >= len(self._documents) - 1": the last stored
\* document is skipped as well
KeptBelowLast(documents, response) ==
    {p \in DOMAIN response : ~(response[p].idx >= Len(documents) - 1)}

\* lines 464-466: the entries of the search response that are not skipped
Kept(documents, response) ==
    {p \in DOMAIN response : ~(response[p].idx >= Len(documents))}

\* the subsequence of s at the positions in keep
RECURSIVE Select(_, _)
Select(s, keep) ==
    IF s = <<>> THEN <<>>
    ELSE LET front == Select(SubSeq(s, 1, Len(s) - 1), keep)
         IN IF Len(s) \in keep THEN Append(front, s[Len(s)]) ELSE front

\* lines 463-491: the loop over the search response; scores[doc][distance]
\* is the loop body (ScoreCandidate) applied to that document and distance
\* for the question being asked
ScoredDocs(documents, response, scores) ==
    LET kept == Select(response, Kept(documents, response))
    IN [p \in DOMAIN kept |->
           scores[StoreAt(documents, kept[p].idx)][kept[p].distance]]

\* the candidates left in the order the search returned them
Unsorted(s) == s

\* line 497: list.sort(key=score, reverse=True) is stable: candidates with
\* equal scores keep their order
RECURSIVE SortByScore(_)
SortByScore(s) ==
    IF s = <<>> THEN <<>>
    ELSE LET front == SortByScore(SubSeq(s, 1, Len(s) - 1))
             x == s[Len(s)]
             before == Cardinality({i \in DOMAIN front : front[i].score >= x.score})
         IN SubSeq(front, 1, before) \o <<x>> \o SubSeq(front, before + 1, Len(front))

\* scored_docs[:top_k + 1]: a slice one document too long
TopKPlusOne(s, top_k) == SubSeq(s, 1, IF top_k + 1 < Len(s) THEN top_k + 1 ELSE Len(s))

\* line 498: scored_docs[:top_k], for top_k >= 0
TopK(s, top_k) == SubSeq(s, 1, IF top_k < Len(s) THEN top_k ELSE Len(s))

\* sum(parts, []): the concatenation of a sequence of sequences
RECURSIVE Flatten(_)
Flatten(parts) ==
    IF parts = <<>> THEN <<>> ELSE parts[1] \o Flatten(Tail(parts))

SchemaRef(metadata) ==
    [model |-> Get(metadata, "model", None),
     table |-> Get(metadata, "table", None),
     column |-> Get(metadata, "column", None),
     source_file |-> Get(metadata, "source_file", NoneAtom)]

\* lines 510-532 without the test of line 526: every recipe adds an entry
SchemaRefsOfAnyRecipe(doc) ==
    LET metadata == Get(doc, "metadata", <<>>)
        doc_type == Get(doc, "doc_type", "")
    IN IF doc_type \in {"schema_column", "query_recipe"}
       THEN <<SchemaRef(metadata)>> ELSE <<>>

\* lines 510-532: what one top document adds to schema_refs
SchemaRefsOf(doc) ==
    LET metadata == Get(doc, "metadata", <<>>)
        doc_type == Get(doc, "doc_type", "")
    IN (IF doc_type = "schema_column" THEN <<SchemaRef(metadata)>> ELSE <<>>)
       \o (IF /\ doc_type = "query_recipe"
              /\ Truthy(Get(metadata, "model", None))
              /\ Truthy(Get(metadata, "column", None))
           THEN <<SchemaRef(metadata)>> ELSE <<>>)

\* lines 518-536: what one top document adds to join_hints, before the
\* deduplication: a recipe's hints are added twice
JoinHintsOf(doc) ==
    LET metadata == Get(doc, "metadata", <<>>)
    IN (IF Get(doc, "doc_type", "") = "query_recipe"
        THEN Get(metadata, "join_hints", <<>>) ELSE <<>>)
       \o (IF "join_hints" \in DOMAIN metadata THEN metadata["join_hints"] ELSE <<>>)

\* lines 518-523
RecipesOf(doc) ==
    IF Get(doc, "doc_type", "") = "query_recipe"
    THEN << [id |-> Get(doc, "id", NoneAtom),
             text |-> Get(doc, "text", None),
             join_hints |-> Get(Get(doc, "metadata", <<>>), "join_hints", <<>>)] >>
    ELSE <<>>

\* lines 539-541 with "if semantics is not None" for "if semantics"
AmbiguitiesOfNonNull(doc) ==
    LET semantics == Get(Get(doc, "metadata", <<>>), "semantics", NoneAtom)
    IN IF semantics # NoneAtom THEN <<semantics>> ELSE <<>>

\* lines 539-541
AmbiguitiesOf(doc) ==
    LET semantics == Get(Get(doc, "metadata", <<>>), "semantics", NoneAtom)
    IN IF TruthyAtom(semantics) THEN <<semantics>> ELSE <<>>

\* the GroundingResult without line 544: join_hints keeps its repeats
AggregateKeepingRepeats(top_docs) ==
    [docs |-> top_docs,
     schema_refs |-> Flatten([i \in DOMAIN top_docs |-> SchemaRefsOf(top_docs[i])]),
     join_hints |-> Flatten([i \in DOMAIN top_docs |-> JoinHintsOf(top_docs[i])]),
     recipes |-> Flatten([i \in DOMAIN top_docs |-> RecipesOf(top_docs[i])]),
     ambiguities |-> Flatten([i \in DOMAIN top_docs |-> AmbiguitiesOf(top_docs[i])])]

\* lines 500-552: the GroundingResult built from the top documents
Aggregate(top_docs) ==
    [docs |-> top_docs,
     schema_refs |-> Flatten([i \in DOMAIN top_docs |-> SchemaRefsOf(top_docs[i])]),
     join_hints |-> Dedup(Flatten([i \in DOMAIN top_docs |-> JoinHintsOf(top_docs[i])])),
     recipes |-> Flatten([i \in DOMAIN top_docs |-> RecipesOf(top_docs[i])]),
     ambiguities |-> Flatten([i \in DOMAIN top_docs |-> AmbiguitiesOf(top_docs[i])])]

(***************************************************************************)
(* The service.                                                            *)
(***************************************************************************)
MaxDocs == 3        \* docs.jsonl holds 0..MaxDocs documents
MaxNTotal == 3      \* faiss.index holds 0..MaxNTotal vectors
MaxTopK == 2        \* top_k ranges over 0..MaxTopK

Artifacts == <<"faiss.index", "docs.jsonl", "config.json">>

\* the documents docs.jsonl may hold, in file order
DocTemplates ==
    << [id |-> "column", doc_type |-> "schema_column",
        text |-> <<"p", "r", "o", "g", "r", "a", "m", " ", "f", "i", "r", "e", " ", "c", "o", "u", "n", "t">>,
        metadata |-> [model |-> <<"P", "r", "o", "g", "r", "a", "m">>, table |-> <<"p", "r", "o", "g", "r", "a", "m", "s">>,
                      column |-> <<"f", "i", "r", "e", "_", "c", "o", "u", "n", "t">>, source_file |-> "models.py",
                      keywords |-> <<<<"f", "i", "r", "e">>, <<"c", "o", "u", "n", "t">>>>]],
       [id |-> "recipe", doc_type |-> "query_recipe",
        text |-> <<"c", "o", "u", "n", "t", " ", "r", "u", "n", "s", " ", "f", "o", "r", " ", "p", "r", "o", "g", "r", "a", "m">>,
        metadata |-> [model |-> <<"R", "u", "n">>, table |-> <<"r", "u", "n", "s">>, column |-> <<"s", "t", "a", "t", "u", "s">>,
                      join_hints |-> <<"Run JOIN Program", "Run JOIN Program",
                                       "Run JOIN Fire">>,
                      keywords |-> <<<<"c", "o", "u", "n", "t">>, <<"r", "u", "n", "s">>>>,
                      semantics |-> "Aggregation: COUNT or SUM",
                      recipe_type |-> "aggregation", source |-> "curated"]],
       [id |-> "model", doc_type |-> "schema_model",
        text |-> <<"r", "u", "n", " ", "c", "r", "e", "a", "t", "e", "d", " ", "2", "0", "2", "4">>,
        metadata |-> [model |-> <<"R", "u", "n">>, table |-> <<"r", "u", "n", "s">>,
                      join_hints |-> <<"Run JOIN Fire", "Run JOIN Experiment">>,
                      semantics |-> NoneAtom]],
       [id |-> "stamp", doc_type |-> "schema_column",
        text |-> <<"x", "y", "z">>,
        metadata |-> [model |-> <<"R", "u", "n">>, table |-> <<"r", "u", "n", "s">>, column |-> <<"c", "r", "e", "a", "t", "e", "d", "_", "a", "t">>,
                      semantics |-> "utc"]],
       [id |-> "bare", doc_type |-> "query_recipe",
        text |-> <<"x", "y", "z">>,
        metadata |-> [join_hints |-> <<"Run JOIN Program">>, column |-> None,
                      semantics |-> ""]],
       [id |-> "statistic", doc_type |-> "schema_column",
        text |-> <<"P", "r", "o", "g", "r", "a", "m", "S", "t", "a", "t", "i", "s", "t", "i", "c", "s", ".", "s", "u", "c", "c", "e", "s", "s", "_", "c", "o", "u", "n", "t">>,
        metadata |-> [model |-> <<"P", "r", "o", "g", "r", "a", "m", "S", "t", "a", "t", "i", "s", "t", "i", "c", "s">>, table |-> <<"p", "r", "o", "g", "r", "a", "m", "_", "s", "t", "a", "t", "i", "s", "t", "i", "c", "s">>,
                      column |-> <<"s", "u", "c", "c", "e", "s", "s", "_", "c", "o", "u", "n", "t">>, source_file |-> "models.py",
                      keywords |-> <<<<"s", "u", "c", "c", "e", "s", "s">>, <<"c", "o", "u", "n", "t">>>>]],
       [id |-> "program", doc_type |-> "schema_model",
        text |-> <<"P", "r", "o", "g", "r", "a", "m", ":", " ", "a", " ", "f", "o", "r", "e", "s", "t", " ", "f", "i", "r", "e", " ", "p", "r", "o", "g", "r", "a", "m">>,
        metadata |-> [model |-> <<"P", "r", "o", "g", "r", "a", "m">>, table |-> <<"p", "r", "o", "g", "r", "a", "m", "s">>,
                      semantics |-> "variant_id handling"]],
       [id |-> "howto", doc_type |-> "query_recipe",
        text |-> <<"s", "u", "c", "c", "e", "s", "s", " ", "c", "o", "u", "n", "t", " ", "p", "e", "r", " ", "p", "r", "o", "g", "r", "a", "m">>,
        metadata |-> [model |-> <<"P", "r", "o", "g", "r", "a", "m", "S", "t", "a", "t", "i", "s", "t", "i", "c", "s">>, column |-> <<"s", "u", "c", "c", "e", "s", "s", "_", "c", "o", "u", "n", "t">>,
                      join_hints |-> <<"ProgramStatistics JOIN Program">>,
                      semantics |-> "variant_id handling",
                      recipe_type |-> "aggregation"]],
       [id |-> "nameless", doc_type |-> "query_recipe",
        text |-> <<"c", "o", "u", "n", "t">>,
        metadata |-> [model |-> <<"P", "r", "o", "g", "r", "a", "m">>, column |-> <<>>]] >>

\* the i-th line of docs.jsonl (i from 0)
DocAt(i) == DocTemplates[(i % Len(DocTemplates)) + 1]

\* lines 84-88: the documents parsed from a file of n lines that starts at
\* line first of the documents the model knows
LoadDocuments(first, n) == [i \in 1..n |-> DocAt(first + i - 1)]

Effect(op) == [op |-> op, what |-> "", text |-> <<>>, k |-> 0]
Exists(what) == [Effect("exists") EXCEPT !.what = what]
Encode(text) == [Effect("encode") EXCEPT !.text = text]
\* index.search(q, k + 1)
SearchOneMore(k) == [Effect("search") EXCEPT !.k = k + 1]
\* index.search(q, k)
Search(k) == [Effect("search") EXCEPT !.k = k]

Loaded(disk) ==
    [constructed |-> TRUE, index_loaded |-> TRUE, model_loaded |-> TRUE,
     ntotal |-> disk.ntotal, documents |-> LoadDocuments(disk.first, disk.ndocs)]

Failure(exc, what) == [kind |-> "raise", exc |-> exc, what |-> what]

\* the last absent artifact, as if lines 65-70 were tested in reverse
LastAbsent(present) ==
    Max({p \in DOMAIN Artifacts : Artifacts[p] \notin present})

\* the first artifact, in the order of lines 65-70, that does not exist
FirstAbsent(present) ==
    Min({p \in DOMAIN Artifacts : Artifacts[p] \notin present})

\* __init__ and _load_index: the object built (or none), the exception
\* raised (or none) and the external calls made, in order
Construction(dependencies, present, disk) ==
    IF ~dependencies
    THEN [svc |-> NoService, outcome |-> Failure("ImportError", "dependencies"),
          effects |-> <<>>]
    ELSE IF \E p \in DOMAIN Artifacts : Artifacts[p] \notin present
    THEN [svc |-> NoService,
          outcome |-> Failure("FileNotFoundError", Artifacts[FirstAbsent(present)]),
          effects |-> [p \in 1..FirstAbsent(present) |-> Exists(Artifacts[p])]]
    ELSE [svc |-> Loaded(disk),
          outcome |-> Idle,
          effects |-> [p \in DOMAIN Artifacts |-> Exists(Artifacts[p])]
                      \o <<Effect("read_config"), Effect("load_model"),
                           Effect("parse_documents"), Effect("read_index")>>]

\* similarity distances, in halves: 1/(1+0) = 1.0 and 1/(1+3) = 0.25
Distances == {0, 6}

\* what index.search(q, k) may return over an index of ntotal vectors: k
\* entries; labels are distinct and below ntotal, -1 marks a missing
\* neighbour and only ends the list; distances do not decrease
RECURSIVE Responses(_, _)
Responses(k, ntotal) ==
    IF k = 0 THEN {<<>>}
    ELSE {Append(r, [idx |-> i, distance |-> d]) :
             <<r, i, d>> \in
                 {t \in Responses(k - 1, ntotal) \X (-1..(ntotal - 1)) \X Distances :
                     /\ t[2] >= 0 =>
                           \A p \in DOMAIN t[1] : t[1][p].idx >= 0 /\ t[1][p].idx # t[2]
                     /\ \A p \in DOMAIN t[1] : t[1][p].distance <= t[3]}}

\* what the question alone decides: its entities (line 449), its keywords
\* (line 460) and the score the loop body of lines 468-490 gives each
\* document at each distance
Prepare(question) ==
    LET entities == ExtractEntities(question)
        keywords == ExtractKeywords(question)
    IN [entities |-> entities,
        keywords |-> keywords,
        scores |-> [doc \in Range(DocTemplates) |->
                       [distance \in Distances |->
                           ScoreCandidate(doc, question, keywords, entities, distance)]]]

\* k = top_k * 2, without the cap of line 456
PoolSizeUncapped(top_k, ntotal) == top_k * 2

\* line 456
PoolSize(top_k, ntotal) == IF top_k * 2 < ntotal THEN top_k * 2 ELSE ntotal

\* lines 463-552 with line 494 after line 498: the candidates are sorted
\* and cut to top_k on their initial scores, and the ones left are boosted
RankBoostingAfterTruncation(service, prepared, top_k, response) ==
    IF \E p \in Kept(service.documents, response) :
           ~InStore(service.documents, response[p].idx)
    THEN Failure("IndexError", "documents")
    ELSE LET initial == ScoredDocs(service.documents, response, prepared.scores)
         IN [kind |-> "result", scored |-> BoostByEntities(initial, prepared.entities)]
                @@ Aggregate(BoostByEntities(TopK(SortByScore(initial), top_k),
                                             prepared.entities))

\* lines 463-552, given the expanded question: rank and aggregate
Rank(service, prepared, top_k, response) ==
    IF \E p \in Kept(service.documents, response) :
           ~InStore(service.documents, response[p].idx)
    THEN Failure("IndexError", "documents")
    ELSE LET scored == BoostByEntities(
                           ScoredDocs(service.documents, response, prepared.scores),
                           prepared.entities)
         IN [kind |-> "result", scored |-> scored]
                @@ Aggregate(TopK(SortByScore(scored), top_k))

\* a store in which the fields of lines 485-490 and 425-426 were written to
\* the stored documents themselves
StoreWrittenThrough(documents, scored) ==
    [i \in DOMAIN documents |->
        IF \E p \in DOMAIN scored : scored[p].id = documents[i].id
        THEN scored[CHOOSE p \in DOMAIN scored : scored[p].id = documents[i].id]
        ELSE documents[i]]

\* lines 468 and 424: each candidate is a copy() of the stored document and
\* the fields of lines 485-490 and 425-426 are written to the copy, so the
\* store is after the call what it was before it
StoreAfter(documents, scored) == documents

\* entities and keywords extracted from the expanded text
QueryForExpanded(question, expanded) == expanded

\* lines 449, 460, 474-479: entities, keywords, recipe boost and penalty are
\* computed from the question as it was asked; the expanded text goes to
\* the encoder only (line 453)
QueryFor(question, expanded) == question

\* retrieve_grounding without the check of lines 441-442; prepared[q] is
\* what Prepare gives for q
RetrieveUnguarded(service, file, seed, question, prepared, top_k, response) ==
    LET expanded == ExpandQuerySynonyms(question, file, seed)
    IN IF expanded.kind = "raise"
       THEN [outcome |-> Failure(expanded.exc, "synonyms"),
             effects |-> <<Effect("read_synonyms")>>,
             documents |-> service.documents]
       ELSE [outcome |-> Rank(service, prepared[QueryFor(question, expanded.text)],
                              top_k, response),
             effects |-> <<Effect("read_synonyms"), Encode(expanded.text),
                           Search(PoolSize(top_k, service.ntotal))>>,
             documents |-> service.documents]

\* retrieve_grounding: what it returns or raises, and the calls it makes;
\* prepared[q] is what Prepare gives for q
RetrieveGrounding(service, file, seed, question, prepared, top_k, response) ==
    IF ~service.index_loaded \/ ~service.model_loaded
    THEN [outcome |-> Failure("RuntimeError", "Schema RAG service not initialized"),
          effects |-> <<>>,
          documents |-> service.documents]
    ELSE LET expanded == ExpandQuerySynonyms(question, file, seed)
         IN IF expanded.kind = "raise"
            THEN [outcome |-> Failure(expanded.exc, "synonyms"),
                  effects |-> <<Effect("read_synonyms")>>,
                  documents |-> service.documents]
            ELSE LET ranked == Rank(service,
                                    prepared[QueryFor(question, expanded.text)],
                                    top_k, response)
                 IN [outcome |-> ranked,
                     effects |-> <<Effect("read_synonyms"), Encode(expanded.text),
                                   Search(PoolSize(top_k, service.ntotal))>>,
                     documents |-> IF ranked.kind = "result"
                                   THEN StoreAfter(service.documents, ranked.scored)
                                   ELSE service.documents]

MainQuestions ==
    { <<"c", "o", "u", "n", "t", " ", "f", "o", "r", " ", "f", "i", "r", "e", " ", "p", "r", "o", "g", "r", "a", "m">>, <<"x", "y", "z">>, <<"5", " ", "o", "r", " ", "m", "o", "r", "e", " ", "d", "o", "n", "e", " ", "r", "u", "n", "s", " ", "c", "r", "e", "a", "t", "e", "d", " ", "i", "n", " ", "2", "0", "2", "4">> }

MainSynFiles ==
    { NoFile("absent"), NoFile("nonobject"),
      \* {"count": ["total"]}
      ObjectFile(<<Entry(<<"c", "o", "u", "n", "t">>, ListVal(<<StrItem(<<"t", "o", "t", "a", "l">>)>>))>>),
      \* {"xyz": ["count"]}
      ObjectFile(<<Entry(<<"x", "y", "z">>, ListVal(<<StrItem(<<"c", "o", "u", "n", "t">>)>>))>>) }

\* the hash seed matters only where list(set(...)) is built (line 126)
SeedsFor(file) ==
    IF \E e \in DOMAIN file.entries :
           \E f \in DOMAIN file.entries :
               StrItem(file.entries[e].key) \in Range(IterValues(file.entries[f].val))
    THEN Seeds ELSE {0}

Init ==
    /\ deps \in BOOLEAN
    /\ files \in SUBSET Range(Artifacts)
    /\ synFile \in MainSynFiles
    /\ onDisk \in [first : {0}, ndocs : 0..MaxDocs, ntotal : 0..MaxNTotal]
    /\ svc = NoService
    /\ effects = <<>>
    /\ outcome = Idle
    /\ fnIn = <<>>
    /\ fnOut = NotCalled

\* service = SchemaRagService(index_path)
Construct ==
    /\ ~svc.constructed
    /\ outcome = Idle
    /\ LET c == Construction(deps, files, onDisk)
       IN svc' = c.svc /\ outcome' = c.outcome /\ effects' = c.effects
    /\ UNCHANGED <<deps, files, synFile, onDisk, fnIn, fnOut>>

\* service._index = None, as tests/test_service.py does to reach the
\* uninitialized state; attr is the attribute cleared
Unload(attr) ==
    /\ svc.constructed
    /\ outcome = Idle
    /\ svc' = IF attr = "_index" THEN [svc EXCEPT !.index_loaded = FALSE]
              ELSE [svc EXCEPT !.model_loaded = FALSE]
    /\ svc' # svc
    /\ UNCHANGED <<deps, files, synFile, onDisk, effects, outcome, fnIn, fnOut>>

\* the search is reached only by an initialized service
Initialized(service) == service.index_loaded /\ service.model_loaded
Indexed(service) == IF Initialized(service) THEN service.ntotal ELSE 0
Asked(service, top_k) ==
    IF Initialized(service) THEN PoolSize(top_k, service.ntotal) ELSE 0

\* the question of the end-to-end scenario
ScenarioQuestions ==
    { <<"W", "h", "a", "t", " ", "i", "s", " ", "t", "h", "e", " ", "s", "u", "c", "c", "e", "s", "s", " ", "c", "o", "u", "n", "t", " ", "f", "o", "r", " ", "t", "h", "e", " ", "f", "o", "r", "e", "s", "t", " ", "f", "i", "r", "e", " ", "p", "r", "o", "g", "r", "a", "m">> }

\* what line 445 makes of the questions the model asks
ExpandedQuestions ==
    {e.text : e \in {x \in {ExpandQuerySynonyms(question, file, seed) :
                                question \in MainQuestions \cup ScenarioQuestions,
                                file \in MainSynFiles, seed \in Seeds} :
                        x.kind = "return"}}

\* Prepare of each question the model asks, and of its expansions
Prepared ==
    [question \in MainQuestions \cup ScenarioQuestions \cup ExpandedQuestions |->
        Prepare(question)]

\* service.retrieve_grounding(question, top_k), the question one of questions
RetrieveFrom(questions) ==
    /\ svc.constructed
    /\ outcome = Idle
    /\ \E question \in questions, top_k \in 0..MaxTopK, seed \in SeedsFor(synFile) :
          \E response \in Responses(Asked(svc, top_k), Indexed(svc)) :
              \E r \in {RetrieveGrounding(svc, synFile, seed, question,
                                          Prepared, top_k, response)} :
                 /\ outcome' = [call |-> [question |-> question, top_k |-> top_k,
                                          response |-> response]] @@ r.outcome
                 /\ effects' = r.effects
                 /\ svc' = [svc EXCEPT !.documents = r.documents]
    /\ UNCHANGED <<deps, files, synFile, onDisk, fnIn, fnOut>>

Retrieve == RetrieveFrom(MainQuestions)

\* the caller is done with what the last call returned or raised
Discard ==
    /\ svc.constructed
    /\ outcome.kind \in {"result", "raise"}
    /\ outcome' = Idle
    /\ effects' = <<>>
    /\ UNCHANGED <<deps, files, synFile, onDisk, svc, fnIn, fnOut>>

Next ==
    \/ Construct
    \/ \E attr \in {"_index", "_model"} : Unload(attr)
    \/ Retrieve
    \/ Discard

Spec == Init /\ [][Next]_vars

(***************************************************************************)
(* The end-to-end scenario: the same service over two other stores, asked  *)
(* the scenario's question.                                                *)
(***************************************************************************)
\* where in DocTemplates the scenario's stores start: bare, statistic,
\* program and program, howto, nameless
ScenarioStores == {4, 6}

InitScenario ==
    /\ deps \in BOOLEAN
    /\ files \in SUBSET Range(Artifacts)
    /\ synFile \in MainSynFiles
    /\ onDisk \in [first : ScenarioStores, ndocs : 0..MaxDocs, ntotal : 0..MaxNTotal]
    /\ svc = NoService
    /\ effects = <<>>
    /\ outcome = Idle
    /\ fnIn = <<>>
    /\ fnOut = NotCalled

RetrieveScenario == RetrieveFrom(ScenarioQuestions)

NextScenario ==
    \/ Construct
    \/ \E attr \in {"_index", "_model"} : Unload(attr)
    \/ RetrieveScenario
    \/ Discard

SpecScenario == InitScenario /\ [][NextScenario]_vars

(***************************************************************************)
(* SpecStores: the questions of Spec asked of the scenario stores, where   *)
(* the entity boost of one candidate can overtake the initial score of     *)
(* another.  Every artifact is on disk and there is no synonym table.      *)
(***************************************************************************)
InitStores ==
    /\ deps = TRUE
    /\ files = Range(Artifacts)
    /\ synFile = NoFile("absent")
    /\ onDisk \in [first : ScenarioStores, ndocs : 0..MaxDocs, ntotal : 0..MaxNTotal]
    /\ svc = NoService
    /\ effects = <<>>
    /\ outcome = Idle
    /\ fnIn = <<>>
    /\ fnOut = NotCalled

SpecStores == InitStores /\ [][Next]_vars

(***************************************************************************)
(* _exact_match_boost on its own: a document and a keyword list are drawn, *)
(* and the function is applied once.                                       *)
(***************************************************************************)
Absent == [has |-> FALSE]
Present(v) == [has |-> TRUE, v |-> v]

\* a dict with the key k bound to the value of field, or empty without it
Field(k, field) == IF field.has THEN k :> field.v ELSE <<>>

ExactModels == {Absent, Present(None), Present(<<>>), Present(<<"R", "u", "n">>), Present(<<"F", "i", "r", "e", "R", "u", "n">>)}
ExactColumns == {Absent, Present(None), Present(<<>>), Present(<<"r", "u", "n", "_", "i", "d">>),
                 Present(<<"S", "t", "a", "t", "u", "s">>), Present(<<"f", "i", "r", "e">>)}
ExactKeywords == {<<"r", "u", "n">>, <<"f", "i", "r", "e">>, <<"i", "d">>, <<"R", "u", "n">>, <<"x">>}

ExactDocs ==
    {[id |-> "unlabelled"]}
        \cup {[metadata |-> Field("model", m) @@ Field("column", c)] :
                 m \in ExactModels, c \in ExactColumns}

InitExact ==
    /\ ServiceAtRest
    /\ fnIn \in [doc : ExactDocs, query_keywords : SUBSET ExactKeywords]
    /\ fnOut = NotCalled

Exact ==
    /\ fnOut = NotCalled
    /\ fnOut' = [kind |-> "boost",
                 boost |-> ExactMatchBoost(fnIn.doc, fnIn.query_keywords)]
    /\ UNCHANGED <<fnIn, serviceVars>>

NextExact == Exact

SpecExact == InitExact /\ [][NextExact]_vars

(***************************************************************************)
(* Properties of _exact_match_boost, under SpecExact.                      *)
(***************************************************************************)
\* the lowercased name a document carries under key, "" when it has none
NameIn(doc, key) ==
    LET metadata == IF "metadata" \in DOMAIN doc THEN doc.metadata ELSE <<>>
    IN IF key \in DOMAIN metadata /\ metadata[key] # None
       THEN Lower(metadata[key]) ELSE <<>>

KeywordIn(keywords, name) == \E kw \in keywords : Contains(name, kw)

\* C10: _exact_match_boost returns 6.0 exactly when some query keyword is a
\* substring of the lowercased model name and some query keyword is a
\* substring of the lowercased column name, and 0.0 otherwise: never a value
\* in between, whatever the number of matching keywords
ExactBoostIsBinary ==
    fnOut.kind = "boost" =>
        fnOut.boost =
            IF /\ KeywordIn(fnIn.query_keywords, NameIn(fnIn.doc, "model"))
               /\ KeywordIn(fnIn.query_keywords, NameIn(fnIn.doc, "column"))
            THEN Pts(12) ELSE 0

\* a document matched by two keywords on the model and two on the column
\* has been given the flat 6.0
ExactBoostGiven ==
    /\ fnOut.kind = "boost"
    /\ fnOut.boost = Pts(12)
    /\ Cardinality({kw \in fnIn.query_keywords :
                       Contains(NameIn(fnIn.doc, "model"), kw)}) = 2
    /\ Cardinality({kw \in fnIn.query_keywords :
                       Contains(NameIn(fnIn.doc, "column"), kw)}) = 2

(***************************************************************************)
(* Properties of _expand_query_synonyms, under SpecExpand.                 *)
(***************************************************************************)
\* the file parses to a mapping from strings to lists of strings
WellFormed(file) ==
    /\ file.kind = "object"
    /\ \A e \in DOMAIN file.entries :
          /\ file.entries[e].val.t = "list"
          /\ \A j \in DOMAIN file.entries[e].val.items :
                file.entries[e].val.items[j].t = "str"

\* the keys and the synonym values of a well-formed file
Vocabulary(file) ==
    {file.entries[e].key : e \in DOMAIN file.entries}
        \cup UNION {{file.entries[e].val.items[j].s :
                        j \in DOMAIN file.entries[e].val.items} :
                    e \in DOMAIN file.entries}

\* C8: synonym expansion never raises: with a table that is absent,
\* unreadable, unparsable or not a mapping from strings to lists of strings,
\* _expand_query_synonyms returns the question unchanged
ExpansionDegradesGracefully ==
    (fnOut.kind # "none" /\ ~WellFormed(fnIn.file)) => fnOut = Returned(fnIn.question)

\* C9, as stated: with a well-formed table, a question none of whose tokens
\* is a key or a synonym value is returned character for character
ExpansionIdentityOnUnknownTokens ==
    ( /\ fnOut.kind # "none"
      /\ WellFormed(fnIn.file)
      /\ \A t \in Range(Split(fnIn.question)) :
            t \notin Vocabulary(fnIn.file) /\ Lower(t) \notin Vocabulary(fnIn.file) )
        => fnOut = Returned(fnIn.question)

\* no lowercased token of the question, and no run of two to four
\* consecutive lowercased tokens joined by single spaces, is in the table
NoKnownPhrase(question, file) ==
    LET words == Split(Lower(question))
    IN \A i \in DOMAIN words : \A n \in 1..4 :
          i + n - 1 <= Len(words) =>
              Join(SubSeq(words, i, i + n - 1)) \notin Vocabulary(file)

\* the question is lowercase, has no leading or trailing whitespace and its
\* tokens are separated by single spaces
Normalised(question) ==
    /\ \A i \in DOMAIN question :
          /\ question[i] \notin UpperSet
          /\ IsSpace(question[i]) => question[i] = " "
          /\ IsSpace(question[i]) =>
                i > 1 /\ i < Len(question) /\ ~IsSpace(question[i + 1])

\* C9, amended: with a well-formed table in which no lowercased token and no
\* run of two to four lowercased tokens of the question is a key or a
\* synonym value, _expand_query_synonyms returns the lowercased tokens of the
\* question joined by single spaces; that is the question itself when the
\* question is already lowercase, trimmed and single-spaced
ExpansionNormalisesUnknownTokens ==
    ( /\ fnOut.kind # "none"
      /\ WellFormed(fnIn.file)
      /\ NoKnownPhrase(fnIn.question, fnIn.file) )
        => /\ fnOut = Returned(Join(Split(Lower(fnIn.question))))
           /\ Normalised(fnIn.question) => fnOut.text = fnIn.question

\* a two-token question unknown to a well-formed, non-empty table has come
\* back lowercased and respaced, no longer equal to what was asked
UnknownQuestionNormalised ==
    /\ fnOut.kind = "return"
    /\ WellFormed(fnIn.file)
    /\ fnIn.file.entries # <<>>
    /\ NoKnownPhrase(fnIn.question, fnIn.file)
    /\ Len(Split(fnIn.question)) = 2
    /\ fnOut.text # fnIn.question
    /\ fnOut.text # Lower(fnIn.question)

(***************************************************************************)
(* Properties of the service, under Spec.                                  *)
(***************************************************************************)
\* the last operation was a call of retrieve_grounding
Called == "call" \in DOMAIN outcome

\* C1: a result of retrieve_grounding holds at most top_k documents, for
\* every question, document store, search response and top_k >= 0; and an
\* initialized service whose synonym table is absent or well formed, given
\* labels that select a stored document, does return a result
ResultWithinTopK ==
    /\ outcome.kind = "result" => Len(outcome.docs) <= outcome.call.top_k
    /\ ( /\ Called
         /\ Initialized(svc)
         /\ synFile.kind = "absent" \/ WellFormed(synFile)
         /\ \A p \in DOMAIN outcome.call.response :
               outcome.call.response[p].idx >= 0 \/ svc.documents # <<>> )
          => outcome.kind = "result"

\* three candidates were scored and exactly top_k = 2 of them returned
ResultTruncated ==
    /\ outcome.kind = "result"
    /\ outcome.call.top_k = 2
    /\ Len(outcome.scored) = 3
    /\ Len(outcome.docs) = 2

\* C2: result.docs is in non-increasing order of final score, candidates of
\* equal score are in the order the search returned them, and no candidate
\* left out scores strictly more than one that is in
RankedByScore ==
    outcome.kind = "result" =>
        \E f \in [DOMAIN outcome.docs -> DOMAIN outcome.scored] :
            /\ \A i \in DOMAIN f : outcome.docs[i] = outcome.scored[f[i]]
            /\ \A i, j \in DOMAIN f :
                  i < j =>
                      \/ outcome.docs[i].score > outcome.docs[j].score
                      \/ /\ outcome.docs[i].score = outcome.docs[j].score
                         /\ f[i] < f[j]
            /\ \A p \in DOMAIN outcome.scored :
                  (\A i \in DOMAIN f : f[i] # p) =>
                      \A i \in DOMAIN f :
                          outcome.scored[p].score <= outcome.docs[i].score

\* two different documents of equal final score were returned, the one the
\* search gave first before the other although it is stored after it, and a
\* third candidate was left out
RankedWithTie ==
    /\ outcome.kind = "result"
    /\ Len(outcome.scored) = 3
    /\ Len(outcome.docs) = 2
    /\ outcome.docs[1].score = outcome.docs[2].score
    /\ outcome.docs[1].id = "model"
    /\ outcome.docs[2].id = "column"

\* the join_hints metadata of a returned document
HintsListedBy(doc) ==
    IF "metadata" \in DOMAIN doc /\ "join_hints" \in DOMAIN doc.metadata
    THEN doc.metadata.join_hints ELSE <<>>

\* C3: result.join_hints has no duplicate and is the concatenation, in rank
\* order, of the join_hints metadata of every returned document, each hint
\* kept once at the place of its first occurrence
JoinHintsDeduplicated ==
    outcome.kind = "result" =>
        LET hints == outcome.join_hints
            listed == Flatten([i \in DOMAIN outcome.docs |->
                                  HintsListedBy(outcome.docs[i])])
            First(h) == Min({p \in DOMAIN listed : listed[p] = h})
        IN /\ \A i, j \in DOMAIN hints : i # j => hints[i] # hints[j]
           /\ Range(hints) = Range(listed)
           /\ \A i, j \in DOMAIN hints : i < j => First(hints[i]) < First(hints[j])

\* a recipe listing one hint twice and a model repeating another of the
\* recipe's hints were returned, and each hint came out once
JoinHintsMerged ==
    /\ outcome.kind = "result"
    /\ Len(outcome.docs) = 2
    /\ outcome.docs[1].id = "recipe"
    /\ outcome.docs[2].id = "model"
    /\ outcome.join_hints = <<"Run JOIN Program", "Run JOIN Fire", "Run JOIN Experiment">>

\* the score a candidate's recorded fields add up to, the penalty counted
\* as pen
SumOfParts(doc, pen) ==
    doc.vector_score + doc.lexical_boost + doc.exact_match_boost + doc.recipe_boost
        - pen + (IF "entity_boost" \in DOMAIN doc THEN doc.entity_boost ELSE 0)

\* C4: every returned document has score = vector_score + lexical_boost +
\* exact_match_boost + recipe_boost - |penalty| + entity_boost, an absent
\* entity_boost counting as 0
ScoreIsSumOfParts ==
    outcome.kind = "result" =>
        \A i \in DOMAIN outcome.docs :
            LET doc == outcome.docs[i]
            IN doc.score = SumOfParts(doc, IF doc.penalty < 0 THEN -doc.penalty
                                           ELSE doc.penalty)

\* a returned document with a lexical boost, a recipe boost, a penalty and
\* an entity boost
ScoreWithEveryPart ==
    /\ outcome.kind = "result"
    /\ \E i \in DOMAIN outcome.docs :
          /\ outcome.docs[i].lexical_boost > 0
          /\ outcome.docs[i].recipe_boost > 0
          /\ outcome.docs[i].penalty < 0
          /\ "entity_boost" \in DOMAIN outcome.docs[i]

\* C5: the penalty never raises a score: every scored candidate records a
\* penalty <= 0 and has score <= vector_score + lexical_boost +
\* exact_match_boost + recipe_boost + entity_boost
PenaltyNeverRaisesScore ==
    outcome.kind = "result" =>
        \A p \in DOMAIN outcome.scored :
            /\ outcome.scored[p].penalty <= 0
            /\ outcome.scored[p].score <= SumOfParts(outcome.scored[p], 0)

\* a candidate carrying both penalties was scored below its other parts and
\* left out of the result
PenalizedCandidateLeftOut ==
    /\ outcome.kind = "result"
    /\ \E p \in DOMAIN outcome.scored :
          /\ outcome.scored[p].penalty = -Pts(10)
          /\ outcome.scored[p].score < SumOfParts(outcome.scored[p], 0)
          /\ \A i \in DOMAIN outcome.docs : outcome.docs[i] # outcome.scored[p]

\* C6: retrieve_grounding on a service whose index or model is not loaded
\* raises the "not initialized" RuntimeError before expanding synonyms,
\* embedding or searching, and returns no result
UninitializedFailsFirst ==
    (Called /\ ~Initialized(svc)) =>
        /\ outcome.kind = "raise"
        /\ outcome.exc = "RuntimeError"
        /\ outcome.what = "Schema RAG service not initialized"
        /\ effects = <<>>

\* the model alone was unloaded, the synonym file is one that expansion
\* fails on, and the call raised the initialization error
UninitializedCallRefused ==
    /\ Called
    /\ svc.index_loaded /\ ~svc.model_loaded
    /\ synFile.kind = "nonobject"
    /\ outcome.exc = "RuntimeError"

\* C7: construction without the dependencies raises ImportError before any
\* file is looked at; with them, and an artifact absent, it raises
\* FileNotFoundError naming the first absent of index, documents, config,
\* having done nothing but test artifacts for existence up to that one
ConstructionFailsFast ==
    (~svc.constructed /\ outcome.kind = "raise") =>
        IF ~deps
        THEN outcome.exc = "ImportError" /\ effects = <<>>
        ELSE /\ outcome.exc = "FileNotFoundError"
             /\ outcome.what \notin files
             /\ outcome.what =
                    IF "faiss.index" \notin files THEN "faiss.index"
                    ELSE IF "docs.jsonl" \notin files THEN "docs.jsonl"
                    ELSE "config.json"
             /\ \A e \in DOMAIN effects : effects[e].op = "exists"
             /\ effects[Len(effects)].what = outcome.what

\* with documents and config both absent, construction named the documents
\* file after testing the index and the documents file and nothing else
ConstructionRefused ==
    /\ ~svc.constructed
    /\ outcome.kind = "raise"
    /\ outcome.exc = "FileNotFoundError"
    /\ files = {"faiss.index"}
    /\ outcome.what = "docs.jsonl"
    /\ Len(effects) = 2

(***************************************************************************)
(* _lexical_boost on its own: a document and a keyword list are drawn, and *)
(* the function is applied once.                                           *)
(***************************************************************************)
LexicalColumns == {Absent, Present(None), Present(<<>>), Present(<<"s", "t", "a", "t", "u", "s">>),
                   Present(<<"S", "t", "a", "t", "u", "s">>), Present(<<"s", "t", "a", "t", "u", "s", "_", "c", "o", "d", "e">>), Present(<<"s", "t", "a", "t", "e">>)}
LexicalModels == {Absent, Present(<<"R", "u", "n", "n", "i", "n", "g">>)}
LexicalTables == {Absent, Present(<<"s", "t", "a", "t", "u", "s", "_", "l", "o", "g">>)}
LexicalDocKeywords == {Absent, Present(<<<<"r", "u", "n", "n", "i", "n", "g">>, <<"x">>>>)}
LexicalTexts == {Absent, Present(<<"I", "s", " ", "R", "u", "n", "n", "i", "n", "g">>)}
LexicalKeywords == {<<"r", "u", "n", "n", "i", "n", "g">>, <<"s", "t", "a", "t", "u", "s">>, <<"d", "o", "n", "e">>, <<"x">>}

LexicalDocs ==
    {Field("text", t)
        @@ [metadata |-> Field("column", c) @@ Field("model", m)
                            @@ Field("table", tb) @@ Field("keywords", k)] :
        c \in LexicalColumns, m \in LexicalModels, tb \in LexicalTables,
        k \in LexicalDocKeywords, t \in LexicalTexts}

InitLexical ==
    /\ ServiceAtRest
    /\ fnIn \in [doc : LexicalDocs, query_keywords : SUBSET LexicalKeywords]
    /\ fnOut = NotCalled

Lexical ==
    /\ fnOut = NotCalled
    /\ fnOut' = [kind |-> "lexical",
                 boost |-> LexicalBoost(fnIn.doc, fnIn.query_keywords)]
    /\ UNCHANGED <<fnIn, serviceVars>>

NextLexical == Lexical

SpecLexical == InitLexical /\ [][NextLexical]_vars

(***************************************************************************)
(* Properties of _lexical_boost, under SpecLexical.                        *)
(***************************************************************************)
\* the boost without the status-column bonus: 2.0 per keyword listed in the
\* document's keywords, 3.0, 2.0 and 1.5 per keyword inside the lowercased
\* column, model and table name, 0.5 per keyword inside the lowercased text
PlainLexical(doc, keywords) ==
    LET listed == IF "keywords" \in DOMAIN doc.metadata
                  THEN Range(doc.metadata.keywords) ELSE {}
        text == IF "text" \in DOMAIN doc THEN Lower(doc.text) ELSE <<>>
        Inside(name) == Cardinality({kw \in keywords : Contains(name, kw)})
    IN Pts(4) * Cardinality(keywords \cap listed)
         + Pts(6) * Inside(NameIn(doc, "column"))
         + Pts(4) * Inside(NameIn(doc, "model"))
         + Pts(3) * Inside(NameIn(doc, "table"))
         + Pts(1) * Inside(text)

\* C11: a document whose column name is "status" in any letter case, asked
\* with a keyword set containing "running", gets a lexical boost of at least
\* 6.0; a document whose column name is anything else, "status_code"
\* included, gets no status-column bonus: its boost is the plain sum of its
\* keyword matches
StatusColumnBonus ==
    fnOut.kind = "lexical" =>
        /\ ( /\ NameIn(fnIn.doc, "column") = <<"s", "t", "a", "t", "u", "s">>
             /\ <<"r", "u", "n", "n", "i", "n", "g">> \in fnIn.query_keywords )
              => fnOut.boost >= Pts(12)
        /\ NameIn(fnIn.doc, "column") # <<"s", "t", "a", "t", "u", "s">>
              => fnOut.boost = PlainLexical(fnIn.doc, fnIn.query_keywords)

\* a document with the column "Status" and nothing else to match, asked
\* with "running" and "x", got exactly 4.0 + 2.0
StatusBonusGiven ==
    /\ fnOut.kind = "lexical"
    /\ fnIn.doc = [metadata |-> [column |-> <<"S", "t", "a", "t", "u", "s">>]]
    /\ fnIn.query_keywords = {<<"r", "u", "n", "n", "i", "n", "g">>, <<"x">>}
    /\ fnOut.boost = Pts(12)

(***************************************************************************)
(* Properties of the end-to-end scenario, under SpecScenario.              *)
(***************************************************************************)
\* C12: asked "What is the success count for the forest fire program", the
\* service scores the ProgramStatistics.success_count column document with
\* a nonzero exact_match_boost whenever the search returns it, and returns
\* it whenever no more than top_k candidates were scored
ScenarioDocumentBoosted ==
    (outcome.kind = "result" /\ outcome.call.question \in ScenarioQuestions) =>
        \A p \in DOMAIN outcome.scored :
            outcome.scored[p].id = "statistic" =>
                /\ outcome.scored[p].exact_match_boost > 0
                /\ Len(outcome.scored) <= outcome.call.top_k =>
                      \E i \in DOMAIN outcome.docs : outcome.docs[i] = outcome.scored[p]

\* the column document, second of the two candidates the search gave, was
\* returned first with the exact-match boost of 6.0
ScenarioDocumentReturned ==
    /\ outcome.kind = "result"
    /\ outcome.call.question \in ScenarioQuestions
    /\ Len(outcome.scored) = 2
    /\ Len(outcome.docs) = 2
    /\ outcome.call.response[2].idx = 1
    /\ outcome.docs[1].id = "statistic"
    /\ outcome.docs[1].exact_match_boost = Pts(12)

(***************************************************************************)
(* _extract_entities on its own: a question is drawn, and the function is  *)
(* applied once.                                                           *)
(***************************************************************************)
MaxWords == 3       \* longest enumerated question of EntityWords, in words

EntityWords == {<<"f", "o", "r">>, <<"t", "h", "e">>, <<"f", "o", "r", "e", "s", "t">>, <<"f", "i", "r", "e">>, <<"p", "r", "o", "g", "r", "a", "m">>, <<"n", "a", "m", "e", "d">>}

\* the questions of at most n words of ws, single-spaced
PhrasesUpTo(ws, n) == {Join(p) : p \in UNION {[1..m -> ws] : m \in 0..n}}

\* the words of the numeric patterns of lines 347-352 and of the comparison
\* patterns of lines 364-369
NumericWords == {<<"m", "o", "r", "e">>, <<"t", "h", "a", "n">>, <<"5">>, <<"o", "r">>, <<"l", "e", "s", "s">>, <<"e", "q", "u", "a", "l">>}

\* a question with two numeric patterns needs four words
EntityQuestions ==
    PhrasesUpTo(EntityWords, MaxWords)
        \cup PhrasesUpTo(NumericWords, MaxWords + 1)
        \cup ScenarioQuestions

InitEntities ==
    /\ ServiceAtRest
    /\ fnIn \in [question : EntityQuestions]
    /\ fnOut = NotCalled

Entities ==
    /\ fnOut = NotCalled
    /\ fnOut' = [kind |-> "entities", entities |-> ExtractEntities(fnIn.question)]
    /\ UNCHANGED <<fnIn, serviceVars>>

NextEntities == Entities

SpecEntities == InitEntities /\ [][NextEntities]_vars

(***************************************************************************)
(* Properties of _extract_entities, under SpecEntities.                    *)
(***************************************************************************)
\* C13: for "What is the success count for the forest fire program",
\* _extract_entities yields program_name = "forest fire"
ScenarioProgramName ==
    (fnOut.kind = "entities" /\ fnIn.question \in ScenarioQuestions) =>
        /\ "program_name" \in DOMAIN fnOut.entities
        /\ fnOut.entities.program_name = <<"f", "o", "r", "e", "s", "t", " ", "f", "i", "r", "e">>

(***************************************************************************)
(* Properties of retrieve_grounding at the edges of the store, under Spec. *)
(***************************************************************************)
\* C14: with no stored document and an index of zero vectors, a call on an
\* initialized service (synonym table absent or well formed) asks the index
\* for k = 0 neighbours and returns a result whose docs, schema_refs,
\* join_hints, recipes and ambiguities are all empty; it does not raise
EmptyStoreEmptyResult ==
    ( /\ Called
      /\ Initialized(svc)
      /\ synFile.kind = "absent" \/ WellFormed(synFile)
      /\ svc.documents = <<>>
      /\ svc.ntotal = 0 )
       => /\ outcome.kind = "result"
          /\ effects[Len(effects)] = Search(0)
          /\ outcome.call.response = <<>>
          /\ outcome.docs = <<>>
          /\ outcome.schema_refs = <<>>
          /\ outcome.join_hints = <<>>
          /\ outcome.recipes = <<>>
          /\ outcome.ambiguities = <<>>

\* top_k = 2 was asked of a service loaded from an empty docs.jsonl and an
\* empty index, with a synonym table on file
EmptyStoreAsked ==
    /\ outcome.kind = "result"
    /\ outcome.call.top_k = 2
    /\ onDisk.ndocs = 0
    /\ svc.ntotal = 0
    /\ WellFormed(synFile)
    /\ outcome.docs = <<>>

(***************************************************************************)
(* Properties of the aggregation, under SpecScenario.                      *)
(***************************************************************************)
\* metadata.semantics of a document, None when it has none
SemanticsOf(doc) == Get(Get(doc, "metadata", <<>>), "semantics", NoneAtom)

\* the semantics of the documents of docs, in order, leaving out the
\* documents whose semantics is one of skipped
RECURSIVE SemanticsWhere(_, _)
SemanticsWhere(docs, skipped) ==
    IF docs = <<>> THEN <<>>
    ELSE (IF SemanticsOf(docs[1]) \in skipped THEN <<>> ELSE <<SemanticsOf(docs[1])>>)
         \o SemanticsWhere(Tail(docs), skipped)

\* C15, as stated: result.ambiguities is, in rank order and with repeats,
\* the semantics of every returned document whose semantics is not null
AmbiguitiesAreNonNullSemantics ==
    outcome.kind = "result" =>
        outcome.ambiguities = SemanticsWhere(outcome.docs, {NoneAtom})

\* C15, amended: result.ambiguities is, in rank order and with repeats, the
\* semantics of every returned document whose semantics is neither null nor
\* the empty string; every other returned document contributes nothing
AmbiguitiesAreNonEmptySemantics ==
    outcome.kind = "result" =>
        outcome.ambiguities = SemanticsWhere(outcome.docs, {NoneAtom, ""})

\* two returned documents, a schema_model and a query_recipe, carry the same
\* semantics and it is listed twice
AmbiguityListedTwice ==
    /\ outcome.kind = "result"
    /\ Len(outcome.docs) = 2
    /\ outcome.docs[1].doc_type # outcome.docs[2].doc_type
    /\ outcome.ambiguities = <<"variant_id handling", "variant_id handling">>


\* the fields retrieve_grounding and _boost_by_entities write to a candidate
ScoreFields ==
    {"score", "vector_score", "lexical_boost", "exact_match_boost",
     "recipe_boost", "penalty", "entity_boost"}

\* C16: whatever calls of retrieve_grounding were made, returning or
\* raising, the stored documents are the documents that were loaded, field
\* for field, and none of them carries a score field
StoreUnchangedByRetrieval ==
    svc.constructed =>
        /\ svc.documents = LoadDocuments(onDisk.first, onDisk.ndocs)
        /\ \A i \in DOMAIN svc.documents :
              DOMAIN svc.documents[i] \cap ScoreFields = {}

\* a call returned a document with all the score fields written to it, and
\* the stored document it was copied from has none of them
CandidateScoredStoreIntact ==
    /\ outcome.kind = "result"
    /\ \E i \in DOMAIN outcome.docs :
          /\ ScoreFields \subseteq DOMAIN outcome.docs[i]
          /\ outcome.docs[i].score > 0
          /\ \E j \in DOMAIN svc.documents :
                /\ svc.documents[j].id = outcome.docs[i].id
                /\ DOMAIN svc.documents[j] \cap ScoreFields = {}


\* the entries of a search response whose index is below n, in order
RECURSIVE Below(_, _)
Below(response, n) ==
    IF response = <<>> THEN <<>>
    ELSE (IF response[1].idx < n THEN <<response[1]>> ELSE <<>>)
         \o Below(Tail(response), n)

\* C17: when the search returns indexes at or above the size of the store
\* (and none negative), an initialized service with a usable synonym table
\* returns a result; the candidates scored are the stored documents at the
\* remaining indexes, in the order of the response, and the result is the
\* one the same call gives for the response without the skipped entries
OutOfRangeIndexSkipped ==
    ( /\ Called
      /\ Initialized(svc)
      /\ synFile.kind = "absent" \/ WellFormed(synFile)
      /\ \A p \in DOMAIN outcome.call.response : outcome.call.response[p].idx >= 0 )
       => LET valid == Below(outcome.call.response, Len(svc.documents))
          IN /\ outcome.kind = "result"
             /\ Len(outcome.scored) = Len(valid)
             /\ \A p \in DOMAIN valid :
                   outcome.scored[p].id = svc.documents[valid[p].idx + 1].id
             /\ \A i \in DOMAIN outcome.docs :
                   \E p \in DOMAIN valid :
                       outcome.docs[i].id = svc.documents[valid[p].idx + 1].id
             /\ \A field \in {"docs", "schema_refs", "join_hints", "recipes", "ambiguities"} :
                   outcome[field] =
                       Rank(svc, Prepared[outcome.call.question],
                            outcome.call.top_k, valid)[field]

\* the search returned index 2 for a store of two documents, between two
\* indexes in range, and the two documents in range were scored
IndexBeyondStoreSkipped ==
    /\ outcome.kind = "result"
    /\ Len(svc.documents) = 2
    /\ Len(outcome.call.response) = 3
    /\ outcome.call.response[2].idx = 2
    /\ Len(outcome.scored) = 2
    /\ Len(outcome.docs) = 2


\* the document has metadata[key], neither null nor empty
Names(doc, key) ==
    /\ "metadata" \in DOMAIN doc
    /\ key \in DOMAIN doc.metadata
    /\ doc.metadata[key] \notin {None, <<>>}

\* the document is one that schema_refs has an entry for
Referenced(doc) ==
    \/ doc.doc_type = "schema_column"
    \/ doc.doc_type = "query_recipe" /\ Names(doc, "model") /\ Names(doc, "column")

\* C18: result.schema_refs has, in rank order and with repeats, one
\* {model, table, column, source_file} entry for every returned
\* schema_column document and one for every returned query_recipe document
\* that names both a model and a column (neither null nor empty), and none
\* for any other document; result.recipes has one {id, text, join_hints}
\* entry for every returned query_recipe document, in rank order
RefsAndRecipesPerDocument ==
    outcome.kind = "result" =>
        LET referenced == Select(outcome.docs,
                                 {i \in DOMAIN outcome.docs : Referenced(outcome.docs[i])})
            recipe == Select(outcome.docs,
                             {i \in DOMAIN outcome.docs :
                                 outcome.docs[i].doc_type = "query_recipe"})
        IN /\ Len(outcome.schema_refs) = Len(referenced)
           /\ \A p \in DOMAIN referenced :
                 /\ DOMAIN outcome.schema_refs[p] = {"model", "table", "column", "source_file"}
                 /\ \A key \in {"model", "table", "column"} :
                       outcome.schema_refs[p][key] =
                           IF key \in DOMAIN referenced[p].metadata
                           THEN referenced[p].metadata[key] ELSE None
                 /\ outcome.schema_refs[p].source_file =
                       IF "source_file" \in DOMAIN referenced[p].metadata
                       THEN referenced[p].metadata.source_file ELSE NoneAtom
           /\ Len(outcome.recipes) = Len(recipe)
           /\ \A p \in DOMAIN recipe :
                 /\ DOMAIN outcome.recipes[p] = {"id", "text", "join_hints"}
                 /\ outcome.recipes[p].id = recipe[p].id
                 /\ outcome.recipes[p].text = recipe[p].text
                 /\ outcome.recipes[p].join_hints =
                       IF "join_hints" \in DOMAIN recipe[p].metadata
                       THEN recipe[p].metadata.join_hints ELSE <<>>

\* two recipes were returned, one naming a model and a column and one with
\* an empty column: two recipes entries and one schema_refs entry
RecipeWithoutColumnUnreferenced ==
    /\ outcome.kind = "result"
    /\ Len(outcome.docs) = 2
    /\ \E i, j \in DOMAIN outcome.docs :
          /\ outcome.docs[i].id = "howto"
          /\ outcome.docs[j].id = "nameless"
    /\ Len(outcome.recipes) = 2
    /\ Len(outcome.schema_refs) = 1
    /\ outcome.schema_refs[1].column = <<"s", "u", "c", "c", "e", "s", "s", "_", "c", "o", "u", "n", "t">>

(***************************************************************************)
(* _expand_query_synonyms over tables whose keys are phrases, one a prefix *)
(* of another: a question of the words a and b is drawn, and the function  *)
(* is applied once.                                                        *)
(***************************************************************************)
MaxPhraseWords == 4     \* longest enumerated question of PhraseWords, in words

PhraseWords == {<<"a">>, <<"b">>}

PhraseQuestions == PhrasesUpTo(PhraseWords, MaxPhraseWords)

PhraseFiles ==
    { \* {"a b": ["x"], "a b a": ["y"]}
      ObjectFile(<<Entry(<<"a", " ", "b">>, ListVal(<<StrItem(<<"x">>)>>)),
                   Entry(<<"a", " ", "b", " ", "a">>, ListVal(<<StrItem(<<"y">>)>>))>>),
      \* {"a b a b": ["z"], "a b": ["x"]}
      ObjectFile(<<Entry(<<"a", " ", "b", " ", "a", " ", "b">>, ListVal(<<StrItem(<<"z">>)>>)),
                   Entry(<<"a", " ", "b">>, ListVal(<<StrItem(<<"x">>)>>))>>),
      \* {"b a": ["w"]}
      ObjectFile(<<Entry(<<"b", " ", "a">>, ListVal(<<StrItem(<<"w">>)>>))>>),
      \* {"a b": ["x"], "b": ["y"]}
      ObjectFile(<<Entry(<<"a", " ", "b">>, ListVal(<<StrItem(<<"x">>)>>)),
                   Entry(<<"b">>, ListVal(<<StrItem(<<"y">>)>>))>>) }

InitPhrases ==
    /\ ServiceAtRest
    /\ fnIn \in [question : PhraseQuestions, file : PhraseFiles]
    /\ fnOut = NotCalled

SpecPhrases == InitPhrases /\ [][NextExpand]_vars

(***************************************************************************)
(* Properties of the phrase scan, under SpecPhrases.                       *)
(***************************************************************************)
\* the scan of lines 133-157 if the longest phrase at the cursor that is a
\* key were the one matched
RECURSIVE ScanLongestFirst(_, _, _, _)
ScanLongestFirst(words, i, expanded, syn) ==
    IF i > Len(words) THEN expanded
    ELSE LET lens == PhraseLens(words, i, syn)
             word == StrItem(words[i])
         IN IF lens # {}
            THEN LET n == CHOOSE n \in lens : \A m \in lens : m <= n
                 IN ScanLongestFirst(words, i + n,
                        Append(expanded, word)
                            \o IterValues(Lookup(syn, PhraseAt(words, i, n))),
                        syn)
            ELSE ScanLongestFirst(words, i + 1,
                     Append(expanded, word)
                         \o (IF HasKey(syn, word)
                             THEN IterValues(Lookup(syn, word)) ELSE <<>>),
                     syn)

\* C19: at each scan position the longest phrase (2 to 4 tokens) that is a
\* key of the synonym table is the one matched: the expansion is the first
\* token of that phrase and its synonyms, and the scan goes on after it
LongestPhraseMatched ==
    (fnOut.kind = "return" /\ fnIn.file \in PhraseFiles) =>
        fnOut = JoinItems(ScanLongestFirst(Split(Lower(fnIn.question)), 1, <<>>,
                                           BuildSynonyms(fnIn.file, 0).tbl))

(***************************************************************************)
(* Properties of the synonym relation, under SpecExpand.                   *)
(***************************************************************************)
\* the synonyms listed by entry e of a well-formed file
ListedBy(file, e) ==
    [j \in DOMAIN file.entries[e].val.items |-> file.entries[e].val.items[j].s]

\* the keys of the entries that list t, once for each time it is listed
KeysListing(file, t) ==
    Flatten([e \in DOMAIN file.entries |->
                Flatten([j \in DOMAIN ListedBy(file, e) |->
                            IF ListedBy(file, e)[j] = t
                            THEN <<file.entries[e].key>> ELSE <<>>])])

\* every key and synonym of the file is a single token
SingleTokens(file) == \A t \in Vocabulary(file) : Split(t) = <<t>>

\* the call returned the expansion of a one-token question, the token a
\* synonym listed by a well-formed file of single tokens
ListedTokenExpanded ==
    /\ fnOut.kind = "return"
    /\ WellFormed(fnIn.file)
    /\ SingleTokens(fnIn.file)
    /\ Len(Split(Lower(fnIn.question))) = 1
    /\ KeysListing(fnIn.file, Split(Lower(fnIn.question))[1]) # <<>>

ScanIterationOverlapping(words, i, expanded, syn) ==
    LET lens == PhraseLens(words, i, syn)
        word == StrItem(words[i])
    IN IF lens # {}
       THEN [n |-> 1,
             expanded |-> Append(expanded, word)
                 \o IterValues(Lookup(syn, PhraseAt(words, i, FirstPhraseLen(lens))))]
       ELSE [n |-> 1,
             expanded |-> Append(expanded, word)
                 \o (IF HasKey(syn, word) THEN IterValues(Lookup(syn, word)) ELSE <<>>)]

\* lines 134-157: one iteration at cursor i; n is what it adds to the cursor
ScanIteration(words, i, expanded, syn) ==
    LET lens == PhraseLens(words, i, syn)
        word == StrItem(words[i])
    IN IF lens # {}
       THEN LET n == FirstPhraseLen(lens)
            IN [n |-> n,
                expanded |-> Append(expanded, word)
                    \o IterValues(Lookup(syn, PhraseAt(words, i, n)))]
       ELSE [n |-> 1,
             expanded |-> Append(expanded, word)
                 \o (IF HasKey(syn, word) THEN IterValues(Lookup(syn, word)) ELSE <<>>)]

InitScan ==
    /\ ServiceAtRest
    /\ fnIn \in [question : PhraseQuestions, file : PhraseFiles]
    /\ fnOut = NotCalled

\* lines 101-131: the table is read and merged, the question split
ScanStart ==
    /\ fnOut = NotCalled
    /\ \E seed \in SeedsFor(fnIn.file) :
          LET built == BuildSynonyms(fnIn.file, seed)
          IN fnOut' = IF built.exc # "none" THEN Raised(built.exc)
                      ELSE [kind |-> "scan", text |-> <<>>, exc |-> "none",
                            words |-> Split(Lower(fnIn.question)), i |-> 1,
                            expanded |-> <<>>, syn |-> built.tbl, iterations |-> <<>>]
    /\ UNCHANGED <<fnIn, serviceVars>>

\* line 134 true: one pass through the loop body
ScanStep ==
    /\ fnOut.kind = "scan"
    /\ fnOut.i <= Len(fnOut.words)
    /\ LET it == ScanIteration(fnOut.words, fnOut.i, fnOut.expanded, fnOut.syn)
       IN fnOut' = [fnOut EXCEPT !.i = @ + it.n,
                                 !.expanded = it.expanded,
                                 !.iterations = Append(@, [i |-> fnOut.i, n |-> it.n])]
    /\ UNCHANGED <<fnIn, serviceVars>>

\* line 134 false, line 159: the loop is left and the list joined
ScanEnd ==
    /\ fnOut.kind = "scan"
    /\ fnOut.i > Len(fnOut.words)
    /\ fnOut' = JoinItems(fnOut.expanded)
    /\ UNCHANGED <<fnIn, serviceVars>>

NextScan == ScanStart \/ ScanStep \/ ScanEnd

\* the loop is not interrupted: a call that can take a step takes it
SpecScan == InitScan /\ [][NextScan]_vars /\ WF_vars(NextScan)

(***************************************************************************)
(* Properties of the scan, under SpecScan.                                 *)
(***************************************************************************)
\* the iterations made so far consumed the tokens before the cursor, each
\* once: every iteration starts where the one before stopped
ConsumedOnce(scan) ==
    /\ \A j \in DOMAIN scan.iterations :
          /\ scan.iterations[j].n \in 1..4
          /\ scan.iterations[j].i =
                IF j = 1 THEN 1
                ELSE scan.iterations[j - 1].i + scan.iterations[j - 1].n
    /\ scan.i = IF scan.iterations = <<>> THEN 1
                ELSE scan.iterations[Len(scan.iterations)].i
                         + scan.iterations[Len(scan.iterations)].n
    /\ scan.i <= Len(scan.words) + 1

\* what the iterations made so far must have put in expanded: for each, the
\* token at its cursor and the synonyms of the phrase it consumed, or of the
\* token if it consumed one token; nothing for the other tokens of a phrase
EmittedBy(scan) ==
    Flatten([j \in DOMAIN scan.iterations |->
        LET it == scan.iterations[j]
            matched == PhraseAt(scan.words, it.i, it.n)
        IN <<StrItem(scan.words[it.i])>>
           \o (IF HasKey(scan.syn, matched)
               THEN IterValues(Lookup(scan.syn, matched)) ELSE <<>>)])

\* C21: the scan terminates for every question and table; the cursor grows
\* at every iteration, by 1 or by the length of the matched phrase; every
\* token is consumed exactly once and a token inside a matched phrase is not
\* expanded on its own, even when it is a key; the empty question gives ""
ScanTerminates ==
    /\ [][(fnOut.kind = "scan" /\ fnOut'.kind = "scan") =>
              /\ fnOut'.i > fnOut.i
              /\ fnOut'.i - fnOut.i \in 1..4]_vars
    /\ [](fnOut.kind = "scan" =>
              /\ ConsumedOnce(fnOut)
              /\ fnOut.expanded = EmittedBy(fnOut))
    /\ []((fnOut.kind = "return" /\ fnIn.question = <<>>) => fnOut.text = <<>>)
    /\ [](fnOut.kind = "return" =>
              \E seed \in Seeds :
                  fnOut = ExpandQuerySynonyms(fnIn.question, fnIn.file, seed))
    /\ <>(fnOut.kind \in {"return", "raise"})

\* with {"a b": ["x"], "b": ["y"]} the question "a b" was scanned in one
\* iteration that consumed both tokens, and "b" was not expanded
PhraseTokenNotExpanded ==
    /\ fnOut.kind = "scan"
    /\ fnOut.words = <<<<"a">>, <<"b">>>>
    /\ fnOut.i = 3
    /\ fnOut.iterations = <<[i |-> 1, n |-> 2]>>
    /\ HasKey(fnOut.syn, StrItem(<<"b">>))
    /\ fnOut.expanded = <<StrItem(<<"a">>), StrItem(<<"x">>)>>

(***************************************************************************)
(* Properties of the calls retrieve_grounding makes, under Spec.           *)
(***************************************************************************)
\* C22: a call that returns a result made exactly one encode call and then
\* exactly one index search, for k = min(2 * top_k, index.ntotal)
\* neighbours, and scored at most k candidates
OneEmbeddingOneSearch ==
    outcome.kind = "result" =>
        LET encodes == {p \in DOMAIN effects : effects[p].op = "encode"}
            searches == {p \in DOMAIN effects : effects[p].op = "search"}
            k == IF 2 * outcome.call.top_k <= svc.ntotal
                 THEN 2 * outcome.call.top_k ELSE svc.ntotal
        IN /\ Cardinality(encodes) = 1
           /\ Cardinality(searches) = 1
           /\ \A e \in encodes : \A s \in searches : e < s
           /\ \A s \in searches : effects[s].k = k
           /\ Len(outcome.call.response) = k
           /\ Len(outcome.scored) <= k

\* top_k = 1 over an index of three vectors: two neighbours were asked for
\* and both were scored
TwoNeighboursAsked ==
    /\ outcome.kind = "result"
    /\ outcome.call.top_k = 1
    /\ svc.ntotal = 3
    /\ effects[Len(effects)] = Search(2)
    /\ Len(outcome.scored) = 2
    /\ Len(outcome.docs) = 1


\* what the same call on the same service and search response would have
\* given with synonym table file
WithTable(file, seed) ==
    RetrieveGrounding(svc, file, seed, outcome.call.question, Prepared,
                      outcome.call.top_k, outcome.call.response)

\* the fields of a call's outcome other than the call itself
Outcome(o) == [field \in DOMAIN o \ {"call"} |-> o[field]]

\* C23: the synonym table reaches a retrieval through the embedded text
\* only: for a call that returned a result, the same question and search
\* response with any other synonym table, or none, give the same scored
\* candidates (every sub-score included) and the same result, and the calls
\* made differ in the text handed to the encoder at most; a table that
\* cannot be expanded makes the call raise instead
SynonymsReachEmbeddingOnly ==
    outcome.kind = "result" =>
        \A file \in MainSynFiles : \A seed \in SeedsFor(file) :
            LET other == WithTable(file, seed)
            IN \/ /\ other.outcome = Outcome(outcome)
                  /\ Len(other.effects) = Len(effects)
                  /\ \A p \in DOMAIN effects :
                        \/ other.effects[p] = effects[p]
                        \/ effects[p].op = "encode" /\ other.effects[p].op = "encode"
               \/ /\ other.outcome.kind = "raise"
                  /\ other.outcome.what = "synonyms"
                  /\ ~WellFormed(file)

\* with {"xyz": ["count"]} the question "xyz" was embedded as "xyz count",
\* and a returned document with "count" in its column name got no lexical
\* or exact-match boost
ExpansionNotScored ==
    /\ outcome.kind = "result"
    /\ outcome.call.question = <<"x", "y", "z">>
    /\ \E p \in DOMAIN effects : effects[p] = Encode(<<"x", "y", "z", " ", "c", "o", "u", "n", "t">>)
    /\ \E i \in DOMAIN outcome.docs :
          /\ outcome.docs[i].id = "column"
          /\ outcome.docs[i].lexical_boost = 0
          /\ outcome.docs[i].exact_match_boost = 0

(***************************************************************************)
(* Properties of the numeric and comparison entities, under SpecEntities.  *)
(***************************************************************************)
\* the question is one of the phrases of NumericWords
NumericQuestion == fnIn.question \in PhrasesUpTo(NumericWords, MaxWords + 1)

\* the words w1 w2 w3 occur in a row in ws
InARow3(ws, w1, w2, w3) ==
    \E i \in 1..(Len(ws) - 2) : ws[i] = w1 /\ ws[i + 1] = w2 /\ ws[i + 2] = w3

\* the words w1 w2 occur in a row in ws
InARow2(ws, w1, w2) == \E i \in 1..(Len(ws) - 1) : ws[i] = w1 /\ ws[i + 1] = w2

\* "more than 5" or "5 more" or "5 or more" is in the question
MoreFamily(ws) ==
    \/ InARow3(ws, <<"m", "o", "r", "e">>, <<"t", "h", "a", "n">>, <<"5">>)
    \/ InARow2(ws, <<"5">>, <<"m", "o", "r", "e">>)
    \/ InARow3(ws, <<"5">>, <<"o", "r">>, <<"m", "o", "r", "e">>)

\* "less than 5" or "5 less" or "5 or less" is in the question
LessFamily(ws) ==
    \/ InARow3(ws, <<"l", "e", "s", "s">>, <<"t", "h", "a", "n">>, <<"5">>)
    \/ InARow2(ws, <<"5">>, <<"l", "e", "s", "s">>)
    \/ InARow3(ws, <<"5">>, <<"o", "r">>, <<"l", "e", "s", "s">>)

\* C24: _extract_entities sets at most one of min_value and max_value.  The
\* patterns are tried in the order more than N, N (or) more, less than N,
\* N (or) less and the first that matches decides: min_value is set exactly
\* when a more pattern matches, max_value exactly when a less pattern
\* matches and no more pattern does
AtMostOneNumericBound ==
    fnOut.kind = "entities" =>
        /\ ~("min_value" \in DOMAIN fnOut.entities /\ "max_value" \in DOMAIN fnOut.entities)
        /\ NumericQuestion =>
              LET ws == Split(fnIn.question)
              IN /\ "min_value" \in DOMAIN fnOut.entities <=> MoreFamily(ws)
                 /\ "max_value" \in DOMAIN fnOut.entities
                        <=> (LessFamily(ws) /\ ~MoreFamily(ws))
                 /\ \A key \in {"min_value", "max_value"} \cap DOMAIN fnOut.entities :
                        fnOut.entities[key] = 5

\* "less than 5 more" matches the second pattern (5 more) and the third
\* (less than 5): min_value is set and max_value is not
SecondPatternDecides ==
    /\ fnOut.kind = "entities"
    /\ fnIn.question = <<"l", "e", "s", "s", " ", "t", "h", "a", "n", " ", "5", " ", "m", "o", "r", "e">>
    /\ "min_value" \in DOMAIN fnOut.entities
    /\ fnOut.entities.min_value = 5
    /\ "max_value" \notin DOMAIN fnOut.entities


\* C25, as stated: the comparison follows the priority greater/more/higher/above, then
\* less/fewer/lower/below, then equal/same/exactly: a question with a word
\* of the first family gives ">", one with a word of the second family and
\* none of the first gives "<", one with a word of the third family only
\* gives "=", and there is no comparison when no family word occurs
ComparisonByFamilyWord ==
    (fnOut.kind = "entities" /\ NumericQuestion) =>
        LET ws == Range(Split(fnIn.question))
            expected == IF <<"m", "o", "r", "e">> \in ws THEN ">"
                        ELSE IF <<"l", "e", "s", "s">> \in ws THEN "<"
                        ELSE IF <<"e", "q", "u", "a", "l">> \in ws THEN "="
                        ELSE "none"
        IN IF expected = "none" THEN "comparison" \notin DOMAIN fnOut.entities
           ELSE /\ "comparison" \in DOMAIN fnOut.entities
                /\ fnOut.entities.comparison = expected


\* C25, amended: a word of the first family gives ">" when it is followed
\* by "than"; failing that, a word of the second family followed by "than"
\* gives "<"; failing that, a word of the third family gives "="; otherwise
\* there is no comparison.  A family word of the first two families that is
\* not followed by "than" decides nothing
ComparisonNeedsThan ==
    (fnOut.kind = "entities" /\ NumericQuestion) =>
        LET ws == Split(fnIn.question)
            expected == IF InARow2(ws, <<"m", "o", "r", "e">>, <<"t", "h", "a", "n">>) THEN ">"
                        ELSE IF InARow2(ws, <<"l", "e", "s", "s">>, <<"t", "h", "a", "n">>) THEN "<"
                        ELSE IF <<"e", "q", "u", "a", "l">> \in Range(ws) THEN "="
                        ELSE "none"
        IN IF expected = "none" THEN "comparison" \notin DOMAIN fnOut.entities
           ELSE /\ "comparison" \in DOMAIN fnOut.entities
                /\ fnOut.entities.comparison = expected

\* "more less than 5" holds a word of the first family, not followed by
\* "than": the comparison is "<"
FamilyWordWithoutThan ==
    /\ fnOut.kind = "entities"
    /\ fnIn.question = <<"m", "o", "r", "e", " ", "l", "e", "s", "s", " ", "t", "h", "a", "n", " ", "5">>
    /\ "comparison" \in DOMAIN fnOut.entities
    /\ fnOut.entities.comparison = "<"

(***************************************************************************)
(* Properties of the entity boost, under SpecStores.                       *)
(***************************************************************************)
\* the entity boost a candidate received
BoostOf(c) == IF "entity_boost" \in DOMAIN c THEN c.entity_boost ELSE 0

\* the score of a candidate before _boost_by_entities
InitialScore(c) == c.score - BoostOf(c)

\* the candidates of a result that were cut by the truncation
CutOff == {p \in DOMAIN outcome.scored :
              \A i \in DOMAIN outcome.docs : outcome.docs[i] # outcome.scored[p]}

\* C26: the entity boost is applied to all scored candidates before they
\* are sorted and cut to top_k.  The boosted candidates are as many as the
\* scored ones and in the same order; and a candidate that fewer than top_k
\* others equal or beat on the boosted score is in result.docs, wherever
\* its initial score ranked it
BoostBeforeTruncation ==
    outcome.kind = "result" =>
        LET initial == ScoredDocs(svc.documents, outcome.call.response,
                                  Prepared[outcome.call.question].scores)
        IN /\ Len(outcome.scored) = Len(initial)
           /\ \A p \in DOMAIN initial :
                 /\ outcome.scored[p].id = initial[p].id
                 /\ outcome.scored[p].score = initial[p].score + BoostOf(outcome.scored[p])
                 /\ BoostOf(outcome.scored[p])
                        = EntityBoost(initial[p], Prepared[outcome.call.question].entities)
           /\ \A p \in DOMAIN outcome.scored :
                 Cardinality({q \in DOMAIN outcome.scored \ {p} :
                                 outcome.scored[q].score >= outcome.scored[p].score})
                     < outcome.call.top_k
                 => p \notin CutOff

\* a returned document had a lower initial score than a candidate that was
\* cut: the boost brought it into the top_k
BoostedIntoTopK ==
    /\ outcome.kind = "result"
    /\ \E i \in DOMAIN outcome.docs : \E p \in CutOff :
          /\ InitialScore(outcome.docs[i]) < InitialScore(outcome.scored[p])
          /\ outcome.docs[i].score > outcome.scored[p].score


\* C27: a candidate has an entity_boost field exactly when its entity boost
\* is above zero, and then the field holds the boost and the score is raised
\* by it; a candidate whose boost is zero, and every candidate when the
\* question has no entity, is the initial candidate, field for field
EntityBoostFieldIffPositive ==
    outcome.kind = "result" =>
        LET entities == Prepared[outcome.call.question].entities
            initial == ScoredDocs(svc.documents, outcome.call.response,
                                  Prepared[outcome.call.question].scores)
        IN /\ DOMAIN outcome.scored = DOMAIN initial
           /\ \A p \in DOMAIN initial :
                 LET boost == EntityBoost(initial[p], entities)
                     c == outcome.scored[p]
                 IN /\ "entity_boost" \in DOMAIN c <=> boost > 0
                    /\ boost > 0 =>
                          /\ c.entity_boost = boost
                          /\ c.score = initial[p].score + boost
                          /\ DOMAIN c = DOMAIN initial[p] \cup {"entity_boost"}
                          /\ \A f \in DOMAIN initial[p] \ {"score"} : c[f] = initial[p][f]
                    /\ boost = 0 => c = initial[p]
           /\ DOMAIN entities = {} => outcome.scored = initial

\* of two scored candidates one was boosted and the other, its boost zero,
\* was passed through
OneBoostedOnePassedThrough ==
    /\ outcome.kind = "result"
    /\ Len(outcome.scored) = 2
    /\ "entity_boost" \in DOMAIN outcome.scored[1]
    /\ outcome.scored[1].entity_boost > 0
    /\ "entity_boost" \notin DOMAIN outcome.scored[2]
    /\ DOMAIN Prepared[outcome.call.question].entities # {}

(***************************************************************************)
(* _recipe_pattern_boost on its own: a document, a question and the        *)
(* entities are drawn, and the function is applied once.                   *)
(***************************************************************************)
RecipeDocs ==
    {[id |-> "unlabelled"]}
        \cup {Field("doc_type", t) @@ [metadata |-> Field("source", s) @@ Field("recipe_type", r)] :
                 t \in {Absent, Present("query_recipe"), Present("schema_column"),
                        Present("schema_model")},
                 s \in {Absent, Present(NoneAtom), Present("curated"), Present("generated")},
                 r \in {Absent, Present(""), Present("aggregation"), Present("temporal"),
                        Present("status"), Present("relationship"), Present("join")}}

RecipeQuestions ==
    { <<"x", "y", "z">>, <<"H", "o", "w", " ", "m", "a", "n", "y">>, <<"c", "o", "u", "n", "t", " ", "f", "o", "r", " ", "s", "t", "a", "t", "u", "s", " ", "l", "a", "s", "t", " ", "y", "e", "a", "r">>, <<"r", "e", "l", "a", "t", "e", "d", " ", "s", "t", "a", "t", "e">>,
      <<"T", "o", "t", "a", "l">>, <<"r", "u", "n", "s", " ", "i", "n", " ", "2", "0", "2", "4">> }

InitRecipe ==
    /\ ServiceAtRest
    /\ fnIn \in [doc : RecipeDocs, question : RecipeQuestions,
                 entities : {<<>>, "has_date" :> TRUE, "min_value" :> 5}]
    /\ fnOut = NotCalled

Recipe ==
    /\ fnOut = NotCalled
    /\ fnOut' = [kind |-> "boost",
                 boost |-> RecipePatternBoost(fnIn.doc, fnIn.question, fnIn.entities)]
    /\ UNCHANGED <<fnIn, serviceVars>>

SpecRecipe == InitRecipe /\ [][Recipe]_vars

(***************************************************************************)
(* Properties of _recipe_pattern_boost, under SpecRecipe.                  *)
(***************************************************************************)
\* the document is a query_recipe
IsRecipe(doc) == "doc_type" \in DOMAIN doc /\ doc.doc_type = "query_recipe"

\* the document is a recipe whose source is curated
IsCurated(doc) ==
    /\ IsRecipe(doc)
    /\ "source" \in DOMAIN doc.metadata
    /\ doc.metadata.source = "curated"

\* C28: _recipe_pattern_boost is 0.0 for a document that is not a
\* query_recipe, whatever its source and recipe_type; for a query_recipe it
\* is 4.0 if the source is curated, plus at most one bonus of 2.0, given
\* only for one of the four recipe types; so it is 0.0, 2.0, 4.0 or 6.0
RecipeBoostOneOfFour ==
    fnOut.kind = "boost" =>
        LET curated == IF IsCurated(fnIn.doc) THEN Pts(8) ELSE 0
            bonus == fnOut.boost - curated
        IN /\ ~IsRecipe(fnIn.doc) => fnOut.boost = 0
           /\ fnOut.boost \in {0, Pts(4), Pts(8), Pts(12)}
           /\ bonus \in {0, Pts(4)}
           /\ bonus = Pts(4) =>
                 /\ IsRecipe(fnIn.doc)
                 /\ "recipe_type" \in DOMAIN fnIn.doc.metadata
                 /\ fnIn.doc.metadata.recipe_type
                        \in {"aggregation", "temporal", "status", "relationship"}

\* a curated status recipe got 6.0 for a question that holds terms of the
\* aggregation, temporal, status and relationship families at once
CuratedRecipeOneBonus ==
    /\ fnOut.kind = "boost"
    /\ fnIn.question = <<"c", "o", "u", "n", "t", " ", "f", "o", "r", " ", "s", "t", "a", "t", "u", "s", " ", "l", "a", "s", "t", " ", "y", "e", "a", "r">>
    /\ IsCurated(fnIn.doc)
    /\ "recipe_type" \in DOMAIN fnIn.doc.metadata
    /\ fnIn.doc.metadata.recipe_type = "status"
    /\ fnOut.boost = Pts(12)

(***************************************************************************)
(* _penalize_incorrect_matches on its own: a document, a keyword list and  *)
(* a vector score are drawn, and the function is applied once.             *)
(***************************************************************************)
PenaltyKeywords == {<<"p", "r", "o", "g", "r", "a", "m">>, <<"s", "i", "m", "u", "l", "a", "t", "i", "o", "n", "s">>, <<"e", "x", "p", "e", "r", "i", "m", "e", "n", "t">>, <<"r", "e", "s", "e", "a", "r", "c", "h">>, <<"s", "t", "a", "t", "u", "s">>}

\* 0.2, 0.3, 1/3, 0.4 and 1.0
PenaltyScores == {Tenths(2), Tenths(3), Tenths(3) + 2, Tenths(4), Tenths(10)}

PenaltyDocs ==
    {[id |-> "unlabelled"]}
        \cup {[metadata |-> Field("model", m) @@ Field("table", t) @@ Field("column", c)]
                 @@ Field("text", x) :
                 m \in {Absent, Present(None), Present(<<"P", "r", "o", "g", "r", "a", "m">>), Present(<<"R", "u", "n">>),
                        Present(<<"S", "i", "m", "u", "l", "a", "t", "i", "o", "n", "E", "x", "p", "e", "r", "i", "m", "e", "n", "t">>)},
                 t \in {Absent, Present(<<"p", "r", "o", "g", "r", "a", "m", "s">>), Present(<<"r", "e", "s", "e", "a", "r", "c", "h", "_", "r", "u", "n", "s">>)},
                 c \in {Absent, Present(<<"S", "t", "a", "t", "u", "s">>)},
                 x \in {Absent, Present(<<"x", "y", "z">>), Present(<<"R", "e", "s", "e", "a", "r", "c", "h", " ", "e", "x", "p", "e", "r", "i", "m", "e", "n", "t">>)}}

InitPenalty ==
    /\ ServiceAtRest
    /\ fnIn \in [doc : PenaltyDocs, query_keywords : SUBSET PenaltyKeywords,
                 vector_score : PenaltyScores]
    /\ fnOut = NotCalled

Penalty ==
    /\ fnOut = NotCalled
    /\ fnOut' = [kind |-> "penalty",
                 penalty |-> PenalizeIncorrectMatches(fnIn.doc, fnIn.query_keywords,
                                                      fnIn.vector_score)]
    /\ UNCHANGED <<fnIn, serviceVars>>

SpecPenalty == InitPenalty /\ [][Penalty]_vars

(***************************************************************************)
(* Properties of _penalize_incorrect_matches, under SpecPenalty.           *)
(***************************************************************************)
\* the words of the four domains
DomainWords ==
    [program |-> {<<"p", "r", "o", "g", "r", "a", "m">>, <<"p", "r", "o", "g", "r", "a", "m", "s">>},
     simulation |-> {<<"s", "i", "m", "u", "l", "a", "t", "i", "o", "n">>, <<"s", "i", "m", "u", "l", "a", "t", "i", "o", "n", "s">>},
     experiment |-> {<<"e", "x", "p", "e", "r", "i", "m", "e", "n", "t">>, <<"e", "x", "p", "e", "r", "i", "m", "e", "n", "t", "s">>},
     research |-> {<<"r", "e", "s", "e", "a", "r", "c", "h">>}]

\* the lowercased text of a document, "" when it has none
TextIn(doc) == IF "text" \in DOMAIN doc THEN Lower(doc.text) ELSE <<>>

\* the domains a word of which is a query keyword while no word of the
\* domain is in the document's model or table name
MismatchedDomains(doc, keywords) ==
    {d \in DOMAIN DomainWords :
        /\ DomainWords[d] \cap keywords # {}
        /\ \A w \in DomainWords[d] :
              ~Contains(NameIn(doc, "model"), w) /\ ~Contains(NameIn(doc, "table"), w)}

\* no query keyword is in the document's model, column, table or text
NothingMatches(doc, keywords) ==
    \A kw \in keywords :
        /\ \A key \in {"model", "column", "table"} : ~Contains(NameIn(doc, key), kw)
        /\ ~Contains(TextIn(doc), kw)

\* C29: the penalty is 0 when vector_score >= 0.4; 3.0 is taken off only
\* when no query keyword is in the model, column, table or text and
\* vector_score < 0.3; each of the four domains takes 2.0 off when the
\* keywords hold one of its words, neither model nor table holds one, and
\* vector_score < 0.4; so the magnitude is 3a + 2d, a in {0,1}, d in 0..4
PenaltyThresholds ==
    fnOut.kind = "penalty" =>
        LET a == IF NothingMatches(fnIn.doc, fnIn.query_keywords)
                    /\ fnIn.vector_score < Tenths(3) THEN 1 ELSE 0
            d == IF fnIn.vector_score < Tenths(4)
                 THEN Cardinality(MismatchedDomains(fnIn.doc, fnIn.query_keywords))
                 ELSE 0
        IN /\ fnOut.penalty = -(Pts(6) * a + Pts(4) * d)
           /\ fnIn.vector_score >= Tenths(4) => fnOut.penalty = 0
           /\ d \in 0..4

\* at vector_score 1/3, between the two thresholds, the four domains were
\* all mismatched and nothing matched: 8.0 was taken off and the 3.0 was not
DomainPenaltiesStack ==
    /\ fnOut.kind = "penalty"
    /\ fnIn.vector_score = Tenths(3) + 2
    /\ NothingMatches(fnIn.doc, fnIn.query_keywords)
    /\ Cardinality(MismatchedDomains(fnIn.doc, fnIn.query_keywords)) = 4
    /\ fnOut.penalty = -Pts(16)

(***************************************************************************)
(* Properties of the indexes of a search response, under Spec.             *)
(***************************************************************************)
\* the entries of a search response whose index is one of 0..n-1, in order
RECURSIVE InRange(_, _)
InRange(response, n) ==
    IF response = <<>> THEN <<>>
    ELSE (IF response[1].idx >= 0 /\ response[1].idx < n THEN <<response[1]>> ELSE <<>>)
         \o InRange(Tail(response), n)

\* C30: the candidates of a call are the stored documents at the indexes i
\* the search returned with 0 <= i < len(documents), one for each and in
\* that order, and every returned document is one of them; an index outside
\* that range, the -1 of a missing neighbour included, gives no candidate,
\* selects no stored document, and does not make the call raise
DocsFromReturnedIndexes ==
    ( /\ Called
      /\ Initialized(svc)
      /\ synFile.kind = "absent" \/ WellFormed(synFile) )
       => LET valid == InRange(outcome.call.response, Len(svc.documents))
          IN /\ outcome.kind = "result"
             /\ Len(outcome.scored) = Len(valid)
             /\ \A p \in DOMAIN valid :
                   outcome.scored[p].id = svc.documents[valid[p].idx + 1].id
             /\ \A i \in DOMAIN outcome.docs :
                   \E p \in DOMAIN valid :
                       outcome.docs[i].id = svc.documents[valid[p].idx + 1].id

====
